---- MODULE Spec2Model ----
(***************************************************************************)
(* Model of the OA generation pipeline's decision logic:                   *)
(*   - EvaluatorService (services/evaluator.py): rubric-weighted scoring   *)
(*     of one response and aggregation over an assessment;                 *)
(*   - QuestionGeneratorService (services/question_generator.py):          *)
(*     skill filter, difficulty filter and sampling of templates, and the  *)
(*     substitution of template variables;                                 *)
(*   - ProfileAnalyzerService (services/profile_analyzer.py): skill map,   *)
(*     experience level and domain expertise of a profile;                 *)
(*   - AnswerGeneratorService (services/answer_generator.py): reference    *)
(*     answers of a batch of questions;                                    *)
(*   - FilePersistence (utils/persistence.py) and the generate and         *)
(*     evaluate commands of main.py.                                       *)
(* Each operation has its own specification over the shared variables; the *)
(* variables of the other operations stay at their idle values.            *)
(*                                                                         *)
(* Numbers.  Python floats are modelled as exact fixed-point rationals:    *)
(*   a match score m in [0,1] is the integer m * MatchDen,                 *)
(*   a rubric weight w is the integer w * WeightDen,                       *)
(*   a score of p points is the integer p * ScoreUnit, so that             *)
(*   match_score * weight * 100 is the product of the two integers.        *)
(* Rounding of binary floating point is not modelled.                      *)
(***************************************************************************)
EXTENDS Integers, Sequences, FiniteSets, TLC

VARIABLES
    pc,                     \* "ready" before the operation under study, "done" after
    reference_answer,       \* evaluate_response: the ReferenceAnswer argument
    raw_score,              \* _mock_evaluate_response: local `score` after the loop (line 247)
    evaluation,             \* evaluate_response: the QuestionEvaluation returned
    questions,              \* evaluate_assessment: the list of Question
    reference_answers,      \* evaluate_assessment: question_id -> ReferenceAnswer
    candidate_responses,    \* evaluate_assessment: question_id -> CandidateResponse
    assessment_evaluation,  \* evaluate_assessment: the AssessmentEvaluation returned
    templates,              \* QuestionGeneratorService.templates: template_id -> QuestionTemplate
    candidate,              \* generate_questions: the NormalizedCandidate
    job_requirements,       \* generate_questions: the job requirements
    num_questions,          \* generate_questions: N
    generated,              \* generate_questions: what it filtered, selected and returned
    question_template,      \* _generate_question_from_template: the QuestionTemplate argument
    generated_question,     \* _generate_question_from_template: the Question returned
    profile,                \* analyze_profile: the CandidateProfile argument
    answers,                \* generate_reference_answers: the list returned
    store,                  \* FilePersistence: directory -> (file name -> file content)
    persistence_result,     \* FilePersistence: the last call and what it returned
    cli_input,              \* main.py: the documents and arguments of the command
    calls,                  \* main.py: the service and persistence calls made, in order
    cli_result,             \* main.py: what the command function returned
    llm_config,             \* LLMService: the configuration it was built with and its environment
    generated_text,         \* LLMService.generate_text: what it returned
    stage                   \* the pipeline stage under study when several are compared

vars == <<pc, reference_answer, raw_score, evaluation,
          questions, reference_answers, candidate_responses, assessment_evaluation,
          templates, candidate, job_requirements, num_questions, generated,
          question_template, generated_question, profile, answers, store, persistence_result,
          cli_input, calls, cli_result, llm_config, generated_text, stage>>

evaluatorVars == <<reference_answer, raw_score, evaluation>>
assessmentVars == <<questions, reference_answers, candidate_responses, assessment_evaluation>>
generatorVars == <<templates, candidate, job_requirements, num_questions, generated>>
instantiatorVars == <<question_template, generated_question>>
analyzerVars == <<profile>>
synthesizerVars == <<answers>>
persistenceVars == <<store, persistence_result>>
cliVars == <<cli_input, calls, cli_result>>
llmVars == <<llm_config, generated_text>>

None == "None"

(***************************************************************************)
(* Generic helpers                                                         *)
(***************************************************************************)
Range(s) == {s[i] : i \in DOMAIN s}

Min(a, b) == IF a < b THEN a ELSE b

Max(a, b) == IF a > b THEN a ELSE b

EmptyDict == [k \in {} |-> 0]

RECURSIVE SumOver(_, _)
\* Sum of f[k] over the keys k in S.
SumOver(S, f) ==
    IF S = {} THEN 0
    ELSE LET k == CHOOSE x \in S : TRUE
         IN  f[k] + SumOver(S \ {k}, f)

RECURSIVE SumSeq(_)
SumSeq(s) == IF s = <<>> THEN 0 ELSE s[1] + SumSeq(Tail(s))

\* Sequences of length n over S without a repeated element.
InjectiveSeqs(S, n) ==
    {s \in [1..n -> S] : \A i, j \in 1..n : i # j => s[i] # s[j]}

\* All sequences over S of length at most n.
SeqsUpTo(S, n) == UNION {[1..k -> S] : k \in 0..n}

(***************************************************************************)
(* Fixed-point scales and the inputs the model draws from                  *)
(***************************************************************************)
MatchDen == 1000

WeightDen == 60

\* One point of score: match_score * weight * 100 in units of 1/ScoreUnit.
ScoreUnit == (MatchDen * WeightDen) \div 100

Points(p) == p * ScoreUnit

MaxKeyPoints == 3

KeyPointNames == {"A", "B"}

\* Match scores 0, 0.5, 0.799 and 1.0 of random.uniform's range [0,1].
MatchScores == {0, 500, 799, 1000}

\* Rubric weights -0.5, 0, 0.4, 0.6, 1.0 and 1.5.
Weights == {-30, 0, 24, 36, 60, 90}

\* scoring_rubric: Dict[str, float], any partial mapping of key points to weights.
Rubrics == UNION {[D -> Weights] : D \in SUBSET KeyPointNames}

\* ReferenceAnswer: the fields evaluation reads (key_points: List[str] may repeat a
\* key point; scoring_rubric may lack entries).
ReferenceAnswers ==
    {[key_points |-> kp, scoring_rubric |-> r] :
        kp \in SeqsUpTo(KeyPointNames, MaxKeyPoints), r \in Rubrics}

(***************************************************************************)
(* EvaluatorService._mock_evaluate_response                                *)
(***************************************************************************)
\* Lines 236-240: key_points_matched is a dict keyed by key point, so a key point
\* listed twice has one entry; its match score is any value of [0,1].
MatchOutcomes(ra) == [Range(ra.key_points) -> MatchScores]

\* Line 246: scoring_rubric.get(key_point, 1.0 / len(key_points)).
RubricWeight(ra, key_point) ==
    IF key_point \in DOMAIN ra.scoring_rubric
    THEN ra.scoring_rubric[key_point]
    ELSE WeightDen \div Len(ra.key_points)

RawScoreNormalizing(ra, key_points_matched) ==
    LET total == SumOver(DOMAIN key_points_matched,
                         [k \in DOMAIN key_points_matched |-> RubricWeight(ra, k)])
        sum == SumOver(DOMAIN key_points_matched,
                   [k \in DOMAIN key_points_matched |->
                       key_points_matched[k] * RubricWeight(ra, k)])
    IN  IF total = 0 THEN sum ELSE (sum * WeightDen) \div total

RawScoreEmptyIsFull(ra, key_points_matched) ==
    IF DOMAIN key_points_matched = {} THEN Points(100)
    ELSE SumOver(DOMAIN key_points_matched,
                 [k \in DOMAIN key_points_matched |->
                     key_points_matched[k] * RubricWeight(ra, k)])

\* Lines 243-247: score accumulated over key_points_matched.items().
RawScore(ra, key_points_matched) ==
    SumOver(DOMAIN key_points_matched,
            [k \in DOMAIN key_points_matched |->
                key_points_matched[k] * RubricWeight(ra, k)])

ClampNoFloor(score) == Min(Points(100), score)

\* Line 250: score = min(100, max(0, score)).
Clamp(score) == Min(Points(100), Max(Points(0), score))

ExcellentText == "Excellent response that covers most key points. Shows strong understanding."

GoodText == "Good response with some key points addressed. Some areas could be improved."

AdequateText == "Adequate response but missing several key points. Needs more thorough understanding."

InsufficientText == "Response is insufficient and missing most key points. Significant improvement needed."

FeedbackStrict(score) ==
    IF score > Points(80) THEN ExcellentText
    ELSE IF score > Points(60) THEN GoodText
    ELSE IF score > Points(40) THEN AdequateText
    ELSE InsufficientText

\* Lines 253-260: the feedback band of the clamped score.
Feedback(score) ==
    IF score >= Points(80) THEN ExcellentText
    ELSE IF score >= Points(60) THEN GoodText
    ELSE IF score >= Points(40) THEN AdequateText
    ELSE InsufficientText

\* Lines 230-262: (score, feedback, key_points_matched) for one outcome of the
\* random matching.
MockEvaluateResponse(ra, key_points_matched) ==
    LET score == Clamp(RawScore(ra, key_points_matched))
    IN  [score |-> score,
         feedback |-> Feedback(score),
         key_points_matched |-> key_points_matched]

\* Lines 161-169: the QuestionEvaluation built from the mock evaluation
\* (confidence 0.85 is kept in hundredths).
QuestionEvaluation(question_id, response_id, mock) ==
    [question_id |-> question_id,
     response_id |-> response_id,
     score |-> mock.score,
     feedback |-> mock.feedback,
     confidence |-> 85,
     key_points_matched |-> mock.key_points_matched]

(***************************************************************************)
(* Specification of one evaluate_response call                             *)
(***************************************************************************)
AssessmentIdle ==
    /\ questions = <<>>
    /\ reference_answers = EmptyDict
    /\ candidate_responses = EmptyDict
    /\ assessment_evaluation = None

GeneratorIdle ==
    /\ templates = EmptyDict
    /\ candidate = None
    /\ job_requirements = None
    /\ num_questions = 0
    /\ generated = None

EvaluatorIdle ==
    /\ reference_answer = None
    /\ raw_score = 0
    /\ evaluation = None

InstantiatorIdle ==
    /\ question_template = None
    /\ generated_question = None

AnalyzerIdle == profile = None

SynthesizerIdle == answers = <<>>

\* persistence_result before any FilePersistence call.
NoCall ==
    [op |-> "none", namespace |-> "none", saved |-> <<>>, id |-> "none",
     ok |-> FALSE, loaded |-> <<>>]

PersistenceIdle ==
    /\ store = EmptyDict
    /\ persistence_result = NoCall

CliIdle ==
    /\ cli_input = None
    /\ calls = <<>>
    /\ cli_result = <<>>

LlmIdle ==
    /\ llm_config = None
    /\ generated_text = <<>>

StageIdle == stage = None

InitEvaluator ==
    /\ pc = "ready"
    /\ reference_answer \in ReferenceAnswers
    /\ raw_score = 0
    /\ evaluation = None
    /\ AssessmentIdle
    /\ GeneratorIdle
    /\ InstantiatorIdle
    /\ AnalyzerIdle
    /\ SynthesizerIdle
    /\ PersistenceIdle
    /\ CliIdle
    /\ LlmIdle
    /\ StageIdle

\* evaluate_response(question, reference_answer, candidate_response), lines 110-172.
EvaluateResponse ==
    /\ pc = "ready"
    /\ \E m \in MatchOutcomes(reference_answer) :
          /\ raw_score' = RawScore(reference_answer, m)
          /\ evaluation' = QuestionEvaluation("q", "r", MockEvaluateResponse(reference_answer, m))
    /\ pc' = "done"
    /\ UNCHANGED <<reference_answer, assessmentVars, generatorVars,
                   instantiatorVars, analyzerVars, synthesizerVars,
                   persistenceVars, cliVars, llmVars, stage>>

NextEvaluator == EvaluateResponse

SpecEvaluator == InitEvaluator /\ [][NextEvaluator]_vars

(***************************************************************************)
(* Claims about evaluate_response (checked under SpecEvaluator)            *)
(***************************************************************************)
\* Every key point of the list has an entry in the rubric.
AllWeighted(ra) == Range(ra.key_points) \subseteq DOMAIN ra.scoring_rubric

\* Sum of the rubric's weights.
RubricSum(ra) == SumOver(DOMAIN ra.scoring_rubric, ra.scoring_rubric)

\* The rubric with every weight multiplied by c.
ScaleRubric(ra, c) ==
    [ra EXCEPT !.scoring_rubric = [k \in DOMAIN ra.scoring_rubric |-> c * ra.scoring_rubric[k]]]

\* The rescaled rubric is representable when every weight divides evenly.
Rescalable(ra) ==
    /\ RubricSum(ra) > 0
    /\ \A k \in DOMAIN ra.scoring_rubric :
          (ra.scoring_rubric[k] * WeightDen) % RubricSum(ra) = 0

\* The rubric rescaled so that its weights sum to 1.
NormalizeRubric(ra) ==
    [ra EXCEPT !.scoring_rubric =
        [k \in DOMAIN ra.scoring_rubric |->
            (ra.scoring_rubric[k] * WeightDen) \div RubricSum(ra)]]

\* C1: every QuestionEvaluation produced by evaluate_response has a score between
\* 0 and 100, whatever the key points, the rubric weights (negative, above 1,
\* summing to more than 1) and the match scores are.
C1_ScoreInRange ==
    pc = "done" => /\ evaluation.score >= Points(0)
                   /\ evaluation.score <= Points(100)

\* C1 witness: a negative rubric weight drove the accumulated score below 0 and
\* the evaluation's score is 0.
C1_Witness ==
    /\ pc = "done"
    /\ raw_score < Points(0)
    /\ \E k \in DOMAIN reference_answer.scoring_rubric : reference_answer.scoring_rubric[k] < 0
    /\ evaluation.score = Points(0)

\* The weight the claim gives a key point: its rubric weight, else 1/len(key_points).
C2_Weight(ra, k) ==
    IF k \in DOMAIN ra.scoring_rubric THEN ra.scoring_rubric[k]
    ELSE WeightDen \div Len(ra.key_points)

\* C2 (as claimed): the score before clamping is the sum over the ordered key-point
\* list of match_score x weight x 100; [A,B] with rubric {A:0.6, B:0.4} and matches
\* {A:1.0, B:0.5} scores 80 with the excellent feedback.
C2_ScoreIsSumOverKeyPointList ==
    pc = "done" =>
        LET kp == reference_answer.key_points
            m == evaluation.key_points_matched
        IN  /\ raw_score = SumSeq([i \in 1..Len(kp) |-> m[kp[i]] * C2_Weight(reference_answer, kp[i])])
            /\ ( /\ kp = <<"A", "B">>
                 /\ reference_answer.scoring_rubric = [k \in {"A", "B"} |-> IF k = "A" THEN 36 ELSE 24]
                 /\ m = [k \in {"A", "B"} |-> IF k = "A" THEN 1000 ELSE 500] )
               => /\ evaluation.score = Points(80)
                  /\ evaluation.feedback = ExcellentText

\* C3: the feedback text is the band of the clamped score, exactly at the
\* boundaries: >= 80 excellent, [60,80) good, [40,60) adequate, < 40 insufficient,
\* and exactly one band applies.
C3_FeedbackBand ==
    pc = "done" =>
        LET s == evaluation.score
            f == evaluation.feedback
            bands == {t \in {ExcellentText, GoodText, AdequateText, InsufficientText} :
                         \/ t = ExcellentText /\ s >= Points(80)
                         \/ t = GoodText /\ s >= Points(60) /\ s < Points(80)
                         \/ t = AdequateText /\ s >= Points(40) /\ s < Points(60)
                         \/ t = InsufficientText /\ s < Points(40)}
        IN  bands = {f}

\* C3 witness: a score of 79.9 (47940 units of 1/600) gets the good text.
C3_Witness ==
    /\ pc = "done"
    /\ 10 * evaluation.score = Points(799)
    /\ evaluation.feedback = GoodText

\* C4 (as claimed): with every key point weighted, a rubric whose weights do not sum
\* to 1 scores the same as that rubric rescaled to sum to 1.
C4_NormalizedRubricSameScore ==
    ( /\ pc = "done"
      /\ AllWeighted(reference_answer)
      /\ Rescalable(reference_answer)
      /\ RubricSum(reference_answer) # WeightDen )
    => evaluation.score =
          MockEvaluateResponse(NormalizeRubric(reference_answer),
                               evaluation.key_points_matched).score

\* C4 (amended): the rubric weights are used as given, without normalization: with
\* every key point weighted, multiplying every weight by c multiplies the score
\* before clamping by c.
C4_WeightsUsedAsGiven ==
    ( pc = "done" /\ AllWeighted(reference_answer) )
    => \A c \in 2..3 :
          RawScore(ScaleRubric(reference_answer, c), evaluation.key_points_matched)
             = c * raw_score

\* C4 witness: rubric {A:1.0, B:1.0} (sum 2) with both matches 0.5 scores 100,
\* where the rescaled rubric {A:0.5, B:0.5} would score 50.
C4_Witness ==
    /\ pc = "done"
    /\ AllWeighted(reference_answer)
    /\ Rescalable(reference_answer)
    /\ RubricSum(reference_answer) = 2 * WeightDen
    /\ evaluation.score = Points(100)
    /\ MockEvaluateResponse(NormalizeRubric(reference_answer),
                            evaluation.key_points_matched).score = Points(50)

(***************************************************************************)
(* EvaluatorService.evaluate_assessment                                    *)
(***************************************************************************)
MaxQuestions == 4

\* The subcategories of the questions of two question banks: all different, and
\* repeating.
SubcategoryBanks == <<
    <<"dsa", "os", "dbms", "net">>,
    <<"dsa", "dsa", "os", "os">> >>

\* Question: the fields evaluation reads.  Question i of a bank has identity i; the
\* subcategories repeat after the bank's last one.
BankQuestion(bank, i) ==
    [question_id |-> i,
     subcategory |-> SubcategoryBanks[bank][((i - 1) % Len(SubcategoryBanks[bank])) + 1]]

\* The reference answer of a bank question: one key point, no rubric entry.
BankReferenceAnswer(i) ==
    [question_id |-> i, key_points |-> <<"A">>, scoring_rubric |-> EmptyDict]

\* CandidateResponse for question i.
BankResponse(i) == [response_id |-> i, question_id |-> i]

\* Match scores 0.4, 0.5, 0.65, 0.8 and 0.9 of random.uniform's range [0,1].
AssessmentMatchScores == {400, 500, 650, 800, 900}

\* Line 192: the question has no reference answer or no candidate response.
MissingPair(question, refs, resps) ==
    \/ question.question_id \notin DOMAIN refs
    \/ question.question_id \notin DOMAIN resps

\* Lines 181-187: the accumulators before the loop.
LoopStart ==
    [question_evaluations |-> <<>>,
     total_score |-> 0,
     question_count |-> 0,
     strengths |-> <<>>,
     areas_for_improvement |-> <<>>]

SkipQuestionCounted(acc) == [acc EXCEPT !.question_count = @ + 1]

\* Lines 192-194: log a warning and continue.
SkipQuestion(acc) == acc

\* Line 208.
IsStrength(score) == score >= Points(80)

\* Line 210 (reached only when line 208 is false).
IsImprovementArea(score) == score <= Points(50)

StrengthText(subcategory) == "Strong understanding of " \o subcategory

ImprovementText(subcategory) == "Needs improvement in " \o subcategory

AddScoreOverwrite(total_score, score) == score

AddScoreRunningAverage(total_score, score) == (total_score + score) \div 2

\* Line 204: total_score += evaluation.score.
AddScore(total_score, score) == total_score + score

\* Lines 196-211: one evaluated question.
EvaluateQuestion(acc, question, refs, resps, key_points_matched) ==
    LET ra == refs[question.question_id]
        response == resps[question.question_id]
        ev == QuestionEvaluation(question.question_id, response.response_id,
                                 MockEvaluateResponse(ra, key_points_matched))
    IN  [question_evaluations |-> Append(acc.question_evaluations, ev),
         total_score |-> AddScore(acc.total_score, ev.score),
         question_count |-> acc.question_count + 1,
         strengths |->
            IF IsStrength(ev.score)
            THEN Append(acc.strengths, StrengthText(question.subcategory))
            ELSE acc.strengths,
         areas_for_improvement |->
            IF ~IsStrength(ev.score) /\ IsImprovementArea(ev.score)
            THEN Append(acc.areas_for_improvement, ImprovementText(question.subcategory))
            ELSE acc.areas_for_improvement]

RECURSIVE EvaluationLoop(_, _, _, _, _, _)
\* Lines 190-211: the accumulators after the loop has run from question n on,
\* starting from acc; matches[i] is the outcome of the random matching for
\* question i.
EvaluationLoop(acc, qs, refs, resps, matches, n) ==
    IF n > Len(qs) THEN acc
    ELSE EvaluationLoop(
            IF MissingPair(qs[n], refs, resps)
            THEN SkipQuestion(acc)
            ELSE EvaluateQuestion(acc, qs[n], refs, resps, matches[n]),
            qs, refs, resps, matches, n + 1)

\* Line 214: total_score / question_count if question_count > 0 else 0, kept as the
\* fraction num/den of the division.
OverallScore(total_score, question_count) ==
    IF question_count > 0
    THEN [num |-> total_score, den |-> question_count]
    ELSE [num |-> 0, den |-> 1]

TopThreeNoDedup(list) == {SubSeq(list, 1, Min(3, Len(list)))}

\* Lines 223-224: list(set(list))[:3]; the iteration order of a set of strings is
\* not fixed, so every order of every choice of three is an outcome.
TopThree(list) == InjectiveSeqs(Range(list), Min(3, Cardinality(Range(list))))

\* The indices of the questions that are evaluated.
EvaluatedIndices(qs, refs, resps) ==
    {i \in DOMAIN qs : ~MissingPair(qs[i], refs, resps)}

\* The outcomes of the random matching over the evaluated questions.
AssessmentMatchOutcomes(qs, refs, resps) ==
    LET idx == EvaluatedIndices(qs, refs, resps)
        all == UNION {[Range(refs[qs[i].question_id].key_points) -> AssessmentMatchScores] : i \in idx}
    IN  {f \in [idx -> all] :
            \A i \in idx : DOMAIN f[i] = Range(refs[qs[i].question_id].key_points)}

InitAssessment ==
    /\ pc = "ready"
    /\ \E bank \in DOMAIN SubcategoryBanks, n \in 0..MaxQuestions :
          /\ questions = [i \in 1..n |-> BankQuestion(bank, i)]
          /\ \E ids \in SUBSET (1..n) : reference_answers = [i \in ids |-> BankReferenceAnswer(i)]
          /\ \E ids \in SUBSET (1..n) : candidate_responses = [i \in ids |-> BankResponse(i)]
    /\ assessment_evaluation = None
    /\ EvaluatorIdle
    /\ GeneratorIdle
    /\ InstantiatorIdle
    /\ AnalyzerIdle
    /\ SynthesizerIdle
    /\ PersistenceIdle
    /\ CliIdle
    /\ LlmIdle
    /\ StageIdle

\* evaluate_assessment(questions, reference_answers, candidate_responses, ...),
\* lines 174-228.
EvaluateAssessment ==
    /\ pc = "ready"
    /\ \E matches \in AssessmentMatchOutcomes(questions, reference_answers, candidate_responses) :
          LET acc == EvaluationLoop(LoopStart, questions, reference_answers,
                                    candidate_responses, matches, 1)
          IN  \E strengths \in TopThree(acc.strengths) :
              \E areas \in TopThree(acc.areas_for_improvement) :
                 assessment_evaluation' =
                    [overall_score |-> OverallScore(acc.total_score, acc.question_count),
                     question_evaluations |-> acc.question_evaluations,
                     strengths |-> strengths,
                     areas_for_improvement |-> areas]
    /\ pc' = "done"
    /\ UNCHANGED <<questions, reference_answers, candidate_responses,
                   evaluatorVars, generatorVars,
                   instantiatorVars, analyzerVars, synthesizerVars,
                   persistenceVars, cliVars, llmVars, stage>>

NextAssessment == EvaluateAssessment

SpecAssessment == InitAssessment /\ [][NextAssessment]_vars

(***************************************************************************)
(* Claims about evaluate_assessment (checked under SpecAssessment)         *)
(***************************************************************************)
\* The scores of the evaluations an AssessmentEvaluation contains.
EvaluationScores(ae) ==
    [j \in 1..Len(ae.question_evaluations) |-> ae.question_evaluations[j].score]

\* The identities of the questions that have a reference answer and a response.
PairedQuestionIds ==
    {questions[i].question_id : i \in
        {i \in DOMAIN questions :
            /\ questions[i].question_id \in DOMAIN reference_answers
            /\ questions[i].question_id \in DOMAIN candidate_responses}}

\* The evaluations of the question with identity id.
EvaluationsOf(ae, id) ==
    {j \in 1..Len(ae.question_evaluations) : ae.question_evaluations[j].question_id = id}

\* C5: overall_score is the arithmetic mean of the scores of the evaluations the
\* AssessmentEvaluation contains; with no evaluation it is 0 and nothing divides
\* by zero.
C5_OverallIsMean ==
    pc = "done" =>
        LET ae == assessment_evaluation
            n == Len(ae.question_evaluations)
        IN  /\ ae.overall_score.den # 0
            /\ n = 0 => ae.overall_score.num = 0
            /\ n > 0 => ae.overall_score.num * n
                           = ae.overall_score.den * SumSeq(EvaluationScores(ae))

\* C5 witness: three evaluations with different scores (90, 40, 65) were averaged.
C5_Witness ==
    /\ pc = "done"
    /\ Len(assessment_evaluation.question_evaluations) = 3
    /\ Range(EvaluationScores(assessment_evaluation)) = {Points(90), Points(40), Points(65)}
    /\ assessment_evaluation.overall_score.num = Points(195)
    /\ assessment_evaluation.overall_score.den = 3

\* C6: a question gets a QuestionEvaluation iff it has both a reference answer and
\* a candidate response; a question lacking either contributes no evaluation and is
\* counted neither in the numerator nor in the denominator of the mean.
C6_EvaluatedIffPaired ==
    pc = "done" =>
        LET ae == assessment_evaluation
        IN  /\ \A i \in DOMAIN questions :
                  Cardinality(EvaluationsOf(ae, questions[i].question_id))
                     = IF questions[i].question_id \in PairedQuestionIds THEN 1 ELSE 0
            /\ Len(ae.question_evaluations) = Cardinality(PairedQuestionIds)
            /\ PairedQuestionIds # {} =>
                  /\ ae.overall_score.den = Cardinality(PairedQuestionIds)
                  /\ ae.overall_score.num =
                        SumOver(PairedQuestionIds,
                                [id \in PairedQuestionIds |->
                                    ae.question_evaluations[CHOOSE j \in EvaluationsOf(ae, id) : TRUE].score])
            /\ PairedQuestionIds = {} => ae.overall_score.num = 0

\* C6 witness: of four questions one lacks a reference answer, one lacks a
\* response, one lacks both, and the remaining one is the only one evaluated.
C6_Witness ==
    /\ pc = "done"
    /\ Len(questions) = 4
    /\ \E i, j, k \in DOMAIN questions :
          /\ i \notin DOMAIN reference_answers /\ i \in DOMAIN candidate_responses
          /\ j \in DOMAIN reference_answers /\ j \notin DOMAIN candidate_responses
          /\ k \notin DOMAIN reference_answers /\ k \notin DOMAIN candidate_responses
    /\ Len(assessment_evaluation.question_evaluations) = 1
    /\ assessment_evaluation.overall_score.den = 1

\* The subcategories of the evaluated questions whose score satisfies P.
C7_Strong ==
    {questions[i].subcategory : i \in
        {i \in DOMAIN questions :
            \E j \in EvaluationsOf(assessment_evaluation, questions[i].question_id) :
                assessment_evaluation.question_evaluations[j].score >= Points(80)}}

C7_Weak ==
    {questions[i].subcategory : i \in
        {i \in DOMAIN questions :
            \E j \in EvaluationsOf(assessment_evaluation, questions[i].question_id) :
                assessment_evaluation.question_evaluations[j].score <= Points(50)}}

\* C7: every strength is "Strong understanding of <subcategory>" of an evaluated
\* question that scored >= 80, every improvement area "Needs improvement in
\* <subcategory>" of one that scored <= 50; neither list repeats an entry or has
\* more than 3; when at most 3 distinct tags qualify all are present; scores 90 on
\* dsa and 40 on os give overall 65, a strength for dsa and an improvement for os.
C7_StrengthsAndImprovements ==
    pc = "done" =>
        LET ae == assessment_evaluation
            strong == {"Strong understanding of " \o sub : sub \in C7_Strong}
            weak == {"Needs improvement in " \o sub : sub \in C7_Weak}
            NoRepeat(list) == \A a, b \in DOMAIN list : a # b => list[a] # list[b]
        IN  /\ Range(ae.strengths) \subseteq strong
            /\ Range(ae.areas_for_improvement) \subseteq weak
            /\ NoRepeat(ae.strengths) /\ Len(ae.strengths) <= 3
            /\ NoRepeat(ae.areas_for_improvement) /\ Len(ae.areas_for_improvement) <= 3
            /\ Cardinality(strong) <= 3 => Range(ae.strengths) = strong
            /\ Cardinality(weak) <= 3 => Range(ae.areas_for_improvement) = weak
            /\ ( /\ Len(questions) = 2
                 /\ questions[1].subcategory = "dsa" /\ questions[2].subcategory = "os"
                 /\ EvaluationScores(ae) = <<Points(90), Points(40)>> )
               => /\ ae.overall_score.num = Points(65) * ae.overall_score.den
                  /\ "Strong understanding of dsa" \in Range(ae.strengths)
                  /\ "Needs improvement in os" \in Range(ae.areas_for_improvement)

\* C7, deduplication: four evaluated questions scored >= 80 on two subcategories
\* and the strengths hold each tag once.
C7_WitnessDeduplicated ==
    /\ pc = "done"
    /\ Len(assessment_evaluation.question_evaluations) = 4
    /\ \A j \in 1..4 : assessment_evaluation.question_evaluations[j].score >= Points(80)
    /\ Cardinality(C7_Strong) = 2
    /\ Len(assessment_evaluation.strengths) = 2

\* C7 witness: four different subcategories qualify as strengths and three of them
\* are kept.
C7_Witness ==
    /\ pc = "done"
    /\ Cardinality(C7_Strong) = 4
    /\ Len(assessment_evaluation.strengths) = 3

(***************************************************************************)
(* QuestionGeneratorService.generate_questions                             *)
(***************************************************************************)
MaxTemplates == 6

MaxNumQuestions == 3

\* QuestionTemplate records of the catalog files: template i of the pool has
\* identity i and the i-th shape (the shapes repeat after the last one).  A str is
\* the sequence of its characters; variables is the dict in insertion order, one
\* item per variable name.
TemplateShapes == <<
    [category |-> "core_cs", subcategory |-> "dsa", question_type |-> "coding",
     difficulty |-> "easy", requires_skills |-> <<"python">>,
     template_text |-> <<"{", "a", "}">>,
     variables |-> << [name |-> <<"a">>, values |-> << <<"x">>, <<"y">> >>] >>],
    [category |-> "core_cs", subcategory |-> "os", question_type |-> "short_answer",
     difficulty |-> "expert", requires_skills |-> <<"python">>,
     template_text |-> <<"x">>, variables |-> <<>>],
    [category |-> "domain_specific", subcategory |-> "dbms", question_type |-> "multiple_choice",
     difficulty |-> "medium", requires_skills |-> <<"sql">>,
     template_text |-> <<"x", "{", "b", "}">>,
     variables |-> << [name |-> <<"b">>, values |-> << <<"y">> >>] >>],
    [category |-> "domain_specific", subcategory |-> "web_dev", question_type |-> "open_ended",
     difficulty |-> "hard", requires_skills |-> <<"react", "python">>,
     template_text |-> <<"y">>, variables |-> <<>>],
    [category |-> "core_cs", subcategory |-> "dsa", question_type |-> "coding",
     difficulty |-> "medium", requires_skills |-> <<>>,
     template_text |-> <<"x">>, variables |-> <<>>],
    [category |-> "core_cs", subcategory |-> "dbms", question_type |-> "short_answer",
     difficulty |-> "hard", requires_skills |-> <<"sql">>,
     template_text |-> <<"y">>, variables |-> <<>>] >>

PoolTemplate(i) ==
    LET shape == TemplateShapes[((i - 1) % Len(TemplateShapes)) + 1]
    IN  [template_id |-> i,
         category |-> shape.category,
         subcategory |-> shape.subcategory,
         question_type |-> shape.question_type,
         difficulty |-> shape.difficulty,
         template_text |-> shape.template_text,
         variables |-> shape.variables,
         requires_skills |-> shape.requires_skills]

\* _load_templates: a dict template_id -> QuestionTemplate, one per readable file.
Catalogs == {[i \in ids |-> PoolTemplate(i)] : ids \in SUBSET (1..MaxTemplates)}

\* experience_level is a str: the three levels and one other value.
ExperienceLevels == {"entry", "mid", "senior", "lead"}

\* NormalizedCandidate: the fields generation reads; weights in hundredths.
Candidates ==
    {[experience_level |-> level,
      skill_map |-> [core_skills |-> [k \in core |-> 80],
                     domain_skills |-> [k \in domain |-> 70]]] :
        level \in ExperienceLevels,
        core \in SUBSET {"python"},
        domain \in SUBSET {"sql"}}

\* job_requirements: the required_skills list.
JobRequirements == {[required_skills |-> js] : js \in SUBSET {"sql", "react"}}

RECURSIVE SortedSeq(_)
\* The elements of a set of integers in increasing order.
SortedSeq(S) ==
    IF S = {} THEN <<>>
    ELSE LET least == CHOOSE x \in S : \A y \in S : x <= y
         IN  <<least>> \o SortedSeq(S \ {least})

\* self.templates.values(): the catalog's templates in load order.
CatalogList(catalog) ==
    LET ids == SortedSeq(DOMAIN catalog)
    IN  [i \in DOMAIN ids |-> catalog[ids[i]]]

PassesSkillFilterAnyCategory(template, cand, job) ==
    LET candidate_skills == DOMAIN cand.skill_map.core_skills
                               \cup DOMAIN cand.skill_map.domain_skills
        job_skills == job.required_skills
    IN  \/ \E skill \in Range(template.requires_skills) : skill \in candidate_skills
        \/ \E skill \in Range(template.requires_skills) : skill \in job_skills

\* Lines 86-97: the test a template passes to be kept.
PassesSkillFilter(template, cand, job) ==
    LET candidate_skills == DOMAIN cand.skill_map.core_skills
                               \cup DOMAIN cand.skill_map.domain_skills
        job_skills == job.required_skills
    IN  \/ \E skill \in Range(template.requires_skills) : skill \in candidate_skills
        \/ /\ template.category = "domain_specific"
           /\ \E skill \in Range(template.requires_skills) : skill \in job_skills

\* _filter_templates, lines 81-100.
FilterTemplates(catalog, cand, job) ==
    SelectSeq(CatalogList(catalog), LAMBDA t : PassesSkillFilter(t, cand, job))

\* Lines 105-110: difficulty_mapping.get(experience_level, [MEDIUM]).
AppropriateDifficulties(level) ==
    CASE level = "entry" -> {"easy", "medium"}
      [] level = "mid" -> {"medium", "hard"}
      [] level = "senior" -> {"hard", "expert"}
      [] OTHER -> {"medium"}

\* Line 113.
DifficultyFiltered(ts, cand) ==
    SelectSeq(ts, LAMBDA t : t.difficulty \in AppropriateDifficulties(cand.experience_level))

SelectionPoolWholeCatalog(ts, cand, n) ==
    IF Len(DifficultyFiltered(ts, cand)) < n
    THEN CatalogList(templates)
    ELSE DifficultyFiltered(ts, cand)

SelectionPoolOffByOne(ts, cand, n) ==
    IF Len(DifficultyFiltered(ts, cand)) <= n THEN ts ELSE DifficultyFiltered(ts, cand)

\* Lines 113-119: the list sampled from, after the fallback.
SelectionPool(ts, cand, n) ==
    IF Len(DifficultyFiltered(ts, cand)) < n THEN ts ELSE DifficultyFiltered(ts, cand)

SamplesWithReplacement(pool, k) == [1..k -> Range(pool)]

\* Line 123: random.sample(pool, k) for 0 <= k <= len(pool): the elements at k
\* different positions, in any order.
Samples(pool, k) ==
    {[i \in 1..k |-> pool[p[i]]] : p \in InjectiveSeqs(DOMAIN pool, k)}

\* Line 141: f"{{{var_name}}}".
Placeholder(var_name) == <<"{">> \o var_name \o <<"}">>

\* sub in text: sub occurs in text as a contiguous run of characters.
Occurs(text, sub) ==
    \E i \in 1..(Len(text) - Len(sub) + 1) : SubSeq(text, i, i + Len(sub) - 1) = sub

RECURSIVE Replace(_, _, _)
\* str.replace(old, new) for a non-empty old: the non-overlapping occurrences of
\* old, found from the left, are replaced; the replacement is not scanned again.
Replace(text, old, new) ==
    IF Len(text) < Len(old) THEN text
    ELSE IF SubSeq(text, 1, Len(old)) = old
    THEN new \o Replace(SubSeq(text, Len(old) + 1, Len(text)), old, new)
    ELSE <<Head(text)>> \o Replace(Tail(text), old, new)

\* Line 140: the outcomes of random.choice for every variable of a template: the
\* position of the value chosen, 0 for a variable whose value list is empty.
Replacements(tmpl) ==
    LET lengths == {Len(tmpl.variables[i].values) : i \in DOMAIN tmpl.variables} \cup {0}
        longest == CHOOSE n \in lengths : \A m \in lengths : m <= n
    IN
    {r \in [DOMAIN tmpl.variables -> 0..longest] :
        \A i \in DOMAIN tmpl.variables :
            IF tmpl.variables[i].values = <<>> THEN r[i] = 0
            ELSE r[i] \in DOMAIN tmpl.variables[i].values}

SubstituteOnce(question_text, items, replacements, i) ==
    IF i > Len(items) THEN question_text
    ELSE IF items[i].values = <<>> THEN question_text
    ELSE Replace(question_text, Placeholder(items[i].name), items[i].values[replacements[i]])

RECURSIVE Substitute(_, _, _, _)
\* Lines 138-141: the loop over template.variables.items(), from item i on; each
\* replacement is made in the text the earlier ones produced.
Substitute(question_text, items, replacements, i) ==
    IF i > Len(items) THEN question_text
    ELSE Substitute(SubstituteOnce(question_text, items, replacements, i),
                    items, replacements, i + 1)

\* Lines 128-156: the Question of a template; question_id stands for the uuid4.
QuestionFromTemplate(tmpl, question_id, replacements) ==
    [question_id |-> question_id,
     template_id |-> tmpl.template_id,
     category |-> tmpl.category,
     subcategory |-> tmpl.subcategory,
     question_type |-> tmpl.question_type,
     difficulty |-> tmpl.difficulty,
     content |-> Substitute(tmpl.template_text, tmpl.variables, replacements, 1),
     skills_tested |-> tmpl.requires_skills]

TemplateRenderedInPlace(tmpl, replacements) ==
    [tmpl EXCEPT !.template_text = Substitute(tmpl.template_text, tmpl.variables,
                                              replacements, 1)]

\* Lines 135-141: the template object after a question was generated from it.
\* question_text is a local name and str.replace returns a new string, so no
\* field of the template is assigned.
TemplateAfterInstantiation(tmpl, replacements) == tmpl

\* self.templates after the loop of lines 70-76 over the selected templates;
\* _filter_templates and _select_templates build new lists (lines 83, 113) and
\* random.sample leaves its population alone (line 123).
CatalogAfterGeneration(catalog, selected, choices) ==
    [id \in DOMAIN catalog |->
        IF \E i \in DOMAIN selected : selected[i].template_id = id
        THEN TemplateAfterInstantiation(
                catalog[id],
                choices[CHOOSE i \in DOMAIN selected : selected[i].template_id = id])
        ELSE catalog[id]]

InitGenerator ==
    /\ pc = "ready"
    /\ templates \in Catalogs
    /\ candidate \in Candidates
    /\ job_requirements \in JobRequirements
    /\ num_questions \in -1..MaxNumQuestions
    /\ generated = None
    /\ EvaluatorIdle
    /\ AssessmentIdle
    /\ InstantiatorIdle
    /\ AnalyzerIdle
    /\ SynthesizerIdle
    /\ PersistenceIdle
    /\ CliIdle
    /\ LlmIdle
    /\ StageIdle

\* generate_questions(candidate, job_requirements, num_questions), lines 55-79.
\* random.sample raises ValueError for a negative sample size, and nothing
\* catches it.
GenerateQuestions ==
    /\ pc = "ready"
    /\ LET filtered == FilterTemplates(templates, candidate, job_requirements)
           pool == SelectionPool(filtered, candidate, num_questions)
           k == Min(num_questions, Len(pool))
       IN  IF filtered = <<>>
           THEN /\ generated' = [raised |-> FALSE, filtered |-> filtered,
                                 selected |-> <<>>, questions |-> <<>>]
                /\ templates' = templates
           ELSE IF k < 0
           THEN /\ generated' = [raised |-> TRUE, filtered |-> filtered,
                                 selected |-> <<>>, questions |-> <<>>]
                /\ templates' = templates
           ELSE \E selected \in Samples(pool, k) :
                \E choices \in [DOMAIN selected ->
                                   UNION {Replacements(selected[i]) : i \in DOMAIN selected}] :
                   /\ \A i \in DOMAIN selected : choices[i] \in Replacements(selected[i])
                   /\ generated' = [raised |-> FALSE, filtered |-> filtered,
                                    selected |-> selected,
                                    questions |-> [i \in DOMAIN selected |->
                                        QuestionFromTemplate(selected[i], i, choices[i])]]
                   /\ templates' = CatalogAfterGeneration(templates, selected, choices)
    /\ pc' = "done"
    /\ UNCHANGED <<candidate, job_requirements, num_questions,
                   evaluatorVars, assessmentVars,
                   instantiatorVars, analyzerVars, synthesizerVars,
                   persistenceVars, cliVars, llmVars, stage>>

NextGenerator == GenerateQuestions

SpecGenerator == InitGenerator /\ [][NextGenerator]_vars

(***************************************************************************)
(* Specification of one _generate_question_from_template call              *)
(***************************************************************************)
MaxValues == 2

\* template_text values: "{a}", "{a}{b}", "{b}{a}", "{{a}}", "{a}x{a}", "x".
TemplateTexts ==
    { <<"{", "a", "}">>,
      <<"{", "a", "}", "{", "b", "}">>,
      <<"{", "b", "}", "{", "a", "}">>,
      <<"{", "{", "a", "}", "}">>,
      <<"{", "a", "}", "x", "{", "a", "}">>,
      <<"x">> }

\* Substitution values: "x", "b", "{a}", "{b}".
ValueStrings == { <<"x">>, <<"b">>, <<"{", "a", "}">>, <<"{", "b", "}">> }

\* The variable dicts over the names a and b, in either insertion order, each
\* name with a list of up to MaxValues values.
VariableDicts ==
    LET names == { <<>>, << <<"a">> >>, << <<"b">> >>,
                   << <<"a">>, <<"b">> >>, << <<"b">>, <<"a">> >> }
    IN  UNION { {[i \in DOMAIN ns |-> [name |-> ns[i], values |-> vs[i]]] :
                    vs \in [DOMAIN ns -> SeqsUpTo(ValueStrings, MaxValues)]} :
                ns \in names }

InstantiableTemplates ==
    {[PoolTemplate(1) EXCEPT !.template_text = text, !.variables = variables] :
        text \in TemplateTexts, variables \in VariableDicts}

InitInstantiator ==
    /\ pc = "ready"
    /\ question_template \in InstantiableTemplates
    /\ generated_question = None
    /\ EvaluatorIdle
    /\ AssessmentIdle
    /\ GeneratorIdle
    /\ AnalyzerIdle
    /\ SynthesizerIdle
    /\ PersistenceIdle
    /\ CliIdle
    /\ LlmIdle
    /\ StageIdle

\* _generate_question_from_template(template, candidate), lines 128-156.
GenerateQuestionFromTemplate ==
    /\ pc = "ready"
    /\ \E replacements \in Replacements(question_template) :
          generated_question' = QuestionFromTemplate(question_template, 1, replacements)
    /\ pc' = "done"
    /\ UNCHANGED <<question_template, evaluatorVars, assessmentVars, generatorVars,
                   analyzerVars, synthesizerVars, persistenceVars, cliVars, llmVars, stage>>

NextInstantiator == GenerateQuestionFromTemplate

SpecInstantiator == InitInstantiator /\ [][NextInstantiator]_vars

(***************************************************************************)
(* Claims about _generate_question_from_template (under SpecInstantiator)  *)
(***************************************************************************)
\* The items of the template's variables whose value list is non-empty.
PopulatedVariables ==
    {i \in DOMAIN question_template.variables : question_template.variables[i].values # <<>>}

\* C12: instantiation is substitution-complete: for every declared variable whose
\* value list is non-empty, the generated content contains no occurrence of the
\* variable's placeholder, whatever the substitution values are.
C12_SubstitutionComplete ==
    pc = "done" =>
        \A i \in PopulatedVariables :
            ~Occurs(generated_question.content,
                    Placeholder(question_template.variables[i].name))

\* Where C12 does hold: no substitution value contains a brace and the template
\* text has no brace directly inside a brace.
C12_CompleteForPlainValues ==
    ( /\ pc = "done"
      /\ ~Occurs(question_template.template_text, <<"{", "{">>)
      /\ \A i \in DOMAIN question_template.variables :
            \A v \in Range(question_template.variables[i].values) :
                "{" \notin Range(v) /\ "}" \notin Range(v) )
    => \A i \in PopulatedVariables :
          ~Occurs(generated_question.content,
                  Placeholder(question_template.variables[i].name))

\* The template "{a}{b}" with populated variables a and b was instantiated.
C12_Witness ==
    /\ pc = "done"
    /\ question_template.template_text = <<"{", "a", "}", "{", "b", "}">>
    /\ Len(question_template.variables) = 2
    /\ PopulatedVariables = {1, 2}

(***************************************************************************)
(* Claims about generate_questions (checked under SpecGenerator)           *)
(***************************************************************************)
\* The template identities the returned questions were generated from.
QuestionTemplateIds == [i \in DOMAIN generated.questions |-> generated.questions[i].template_id]

\* C8: every template a question is generated from belongs to the skill-filtered
\* set, and the skill-filtered set is a subset of the loaded catalog.
C8_SelectionWithinFilterWithinCatalog ==
    pc = "done" =>
        /\ \A i \in DOMAIN generated.questions :
              \E j \in DOMAIN generated.filtered :
                 generated.filtered[j].template_id = generated.questions[i].template_id
        /\ \A j \in DOMAIN generated.filtered :
              /\ generated.filtered[j].template_id \in DOMAIN templates
              /\ templates[generated.filtered[j].template_id] = generated.filtered[j]

\* C8 witness: the catalog holds a template the skill filter discards, too few
\* templates have an appropriate difficulty, and the questions come from the
\* filtered templates only.
C8_Witness ==
    /\ pc = "done"
    /\ Len(generated.filtered) < Cardinality(DOMAIN templates)
    /\ Len(DifficultyFiltered(generated.filtered, candidate)) < num_questions
    /\ Len(generated.questions) = Len(generated.filtered)
    /\ Len(generated.questions) >= 2

\* C9: for N >= 0 exactly min(N, number of skill-filtered templates) questions are
\* returned, from pairwise distinct templates; N = 0 and an empty filtered set give
\* the empty list, without raising.
C9_ExactlyMinQuestions ==
    ( pc = "done" /\ num_questions >= 0 ) =>
        /\ ~generated.raised
        /\ Len(generated.questions) = Min(num_questions, Len(generated.filtered))
        /\ \A i, j \in DOMAIN generated.questions :
              i # j => generated.questions[i].template_id # generated.questions[j].template_id
        /\ num_questions = 0 => generated.questions = <<>>
        /\ num_questions > Len(generated.filtered) =>
              Len(generated.questions) = Len(generated.filtered)
        /\ generated.filtered = <<>> => generated.questions = <<>>

\* C9 witness: N = 3 exceeds the two filtered templates and two questions, one per
\* template, are returned.
C9_Witness ==
    /\ pc = "done"
    /\ num_questions = 3
    /\ Len(generated.filtered) = 2
    /\ Range(QuestionTemplateIds) = {generated.filtered[1].template_id,
                                     generated.filtered[2].template_id}

\* The difficulties the claim allows for an experience level.
C10_Allowed(level) ==
    IF level = "entry" THEN {"easy", "medium"}
    ELSE IF level = "mid" THEN {"medium", "hard"}
    ELSE IF level = "senior" THEN {"hard", "expert"}
    ELSE {"medium"}

\* The skill-filtered templates whose difficulty is allowed for the candidate.
C10_Eligible ==
    {generated.filtered[j].template_id : j \in
        {j \in DOMAIN generated.filtered :
            generated.filtered[j].difficulty \in C10_Allowed(candidate.experience_level)}}

\* C10: with N >= 0, when at least N skill-filtered templates have an allowed
\* difficulty the selection is drawn from them; only when fewer than N exist is it
\* drawn from the full skill-filtered set.  With an easy and an expert template
\* both requiring python, an entry-level candidate and N = 1, the easy one is
\* returned.
C10_DifficultyAdvisory ==
    ( pc = "done" /\ num_questions >= 0 ) =>
        /\ Cardinality(C10_Eligible) >= num_questions =>
              /\ Range(QuestionTemplateIds) \subseteq C10_Eligible
              /\ Len(generated.questions) = num_questions
        /\ Cardinality(C10_Eligible) < num_questions =>
              /\ Range(QuestionTemplateIds) \subseteq
                    {generated.filtered[j].template_id : j \in DOMAIN generated.filtered}
              /\ Len(generated.questions) = Min(num_questions, Len(generated.filtered))
        /\ ( /\ DOMAIN templates = {1, 2}
             /\ templates[1].difficulty = "easy" /\ templates[2].difficulty = "expert"
             /\ "python" \in Range(templates[1].requires_skills)
             /\ "python" \in Range(templates[2].requires_skills)
             /\ "python" \in DOMAIN candidate.skill_map.core_skills
             /\ candidate.experience_level = "entry"
             /\ num_questions = 1 )
           => QuestionTemplateIds = <<1>>

\* C10 witness: the catalog of the example, an entry-level python candidate and
\* N = 1; the question comes from the easy template although the expert template
\* passed the skill filter.
C10_Witness ==
    /\ pc = "done"
    /\ DOMAIN templates = {1, 2}
    /\ candidate.experience_level = "entry"
    /\ "python" \in DOMAIN candidate.skill_map.core_skills
    /\ num_questions = 1
    /\ Len(generated.filtered) = 2
    /\ QuestionTemplateIds = <<1>>

\* The identities of the templates the skill filter kept.
FilteredTemplateIds ==
    {generated.filtered[i].template_id : i \in DOMAIN generated.filtered}

\* The condition of the claim for one template, on the sets it names.
C11_Passes(t) ==
    LET required == Range(t.requires_skills)
        candidate_tokens == DOMAIN candidate.skill_map.core_skills
                               \cup DOMAIN candidate.skill_map.domain_skills
    IN  \/ required \cap candidate_tokens # {}
        \/ /\ t.category = "domain_specific"
           /\ required \cap job_requirements.required_skills # {}

\* C11: a template passes the skill filter iff one of its required skills is a
\* core or domain skill token of the candidate, or its category is domain_specific
\* and one of its required skills is in the job's required-skill set; a template
\* with no required skills never passes.
C11_SkillFilter ==
    pc = "done" =>
        \A id \in DOMAIN templates :
            /\ id \in FilteredTemplateIds <=> C11_Passes(templates[id])
            /\ templates[id].requires_skills = <<>> => id \notin FilteredTemplateIds

\* C11 witness: the candidate has python but not sql and the job requires sql; the
\* domain_specific template requiring sql passes through the job's skills, the
\* core_cs template requiring sql and the template requiring nothing are dropped.
C11_Witness ==
    /\ pc = "done"
    /\ DOMAIN templates = 1..6
    /\ DOMAIN candidate.skill_map.core_skills = {"python"}
    /\ DOMAIN candidate.skill_map.domain_skills = {}
    /\ job_requirements.required_skills = {"sql"}
    /\ FilteredTemplateIds = {1, 2, 3, 4}

(***************************************************************************)
(* ProfileAnalyzerService.analyze_profile                                  *)
(* (oa_generation_pipeline/services/profile_analyzer.py)                   *)
(*                                                                         *)
(* A skill weight w is the integer w * 100; years of experience y are the  *)
(* integer y * YearsDen.  A responsibility or detail line is the sequence  *)
(* of its whitespace-separated words; a duration is the sequence of its    *)
(* words, the en dash being a word of its own.                             *)
(***************************************************************************)
MaxResponsibilities == 2

MaxExperience == 6

YearsDen == 4

\* str.lower() on the words of the vocabulary that have an upper-case letter.
LowerCase ==
    ("Python" :> "python") @@ ("SQL" :> "sql") @@ ("PyTorch" :> "pytorch")
        @@ ("React" :> "react") @@ ("Used" :> "used") @@ ("Built" :> "built")
        @@ ("Managed" :> "managed")

Lower(word) == IF word \in DOMAIN LowerCase THEN LowerCase[word] ELSE word

\* set(line.lower().split())
Words(line) == {Lower(line[i]) : i \in DOMAIN line}

BoostedUnclamped(weight) == weight + 10

\* Lines 78, 82: min(1.0, weight + 0.1).
Boosted(weight) == Min(100, weight + 10)

\* Lines 65-70: one key per lower-cased declared entry, all with the seed weight.
Seeded(declared, weight) == [key \in {Lower(declared[i]) : i \in DOMAIN declared} |-> weight]

RECURSIVE BoostDeclared(_, _, _, _)
\* Lines 76-78 and 80-82: the loop over the declared list for one line, from entry i.
BoostDeclared(skills, declared, words, i) ==
    IF i > Len(declared) THEN skills
    ELSE IF Lower(declared[i]) \in words
    THEN BoostDeclared([skills EXCEPT ![Lower(declared[i])] = Boosted(@)], declared, words, i + 1)
    ELSE BoostDeclared(skills, declared, words, i + 1)

RECURSIVE BoostLines(_, _, _, _)
\* Lines 73-82 for one of the two dicts: the responsibility lines from line j.
BoostLines(skills, declared, lines, j) ==
    IF j > Len(lines) THEN skills
    ELSE BoostLines(BoostDeclared(skills, declared, Words(lines[j]), 1), declared, lines, j + 1)

RECURSIVE Responsibilities(_, _)
\* Lines 73-74: the responsibility lines of the experience entries from entry i,
\* in the order the loops visit them.
Responsibilities(experience, i) ==
    IF i > Len(experience) THEN <<>>
    ELSE experience[i].responsibilities \o Responsibilities(experience, i + 1)

RECURSIVE Details(_, _)
\* Lines 86-87: the detail lines of the projects from project i.
Details(projects, i) ==
    IF i > Len(projects) THEN <<>>
    ELSE projects[i].details \o Details(projects, i + 1)

RECURSIVE ValidateDeclared(_, _, _, _)
\* Lines 90-92 and 94-96: the loop over a declared list for one detail line.
ValidateDeclared(validated, declared, words, i) ==
    IF i > Len(declared) THEN validated
    ELSE IF Lower(declared[i]) \in words /\ declared[i] \notin Range(validated)
    THEN ValidateDeclared(Append(validated, declared[i]), declared, words, i + 1)
    ELSE ValidateDeclared(validated, declared, words, i + 1)

RECURSIVE ValidateLines(_, _, _, _)
\* Lines 85-96: project_validated_skills after the detail lines from line j.
ValidateLines(validated, technical_skills, lines, j) ==
    IF j > Len(lines) THEN validated
    ELSE ValidateLines(
            ValidateDeclared(
                ValidateDeclared(validated, technical_skills.languages, Words(lines[j]), 1),
                technical_skills.frameworks_technologies, Words(lines[j]), 1),
            technical_skills, lines, j + 1)

\* _create_skill_map, lines 56-111.
CreateSkillMap(p) ==
    [core_skills |-> BoostLines(Seeded(p.technical_skills.languages, 80),
                                p.technical_skills.languages,
                                Responsibilities(p.experience, 1), 1),
     domain_skills |-> BoostLines(Seeded(p.technical_skills.frameworks_technologies, 70),
                                  p.technical_skills.frameworks_technologies,
                                  Responsibilities(p.experience, 1), 1),
     inferred_skills |-> EmptyDict,
     project_validated_skills |-> ValidateLines(<<>>, p.technical_skills, Details(p.projects, 1), 1)]

\* The character U+2013 of line 121, as a word of a duration.
EnDash == "EN DASH"

RECURSIVE Split(_, _)
\* str.split(sep) on a sequence of words of which sep is one: the parts between
\* the occurrences of sep (one part more than there are occurrences).
Split(text, sep) ==
    IF \A i \in DOMAIN text : text[i] # sep THEN <<text>>
    ELSE LET first == CHOOSE i \in DOMAIN text :
                          text[i] = sep /\ \A j \in 1..(i - 1) : text[j] # sep
         IN  <<SubSeq(text, 1, first - 1)>> \o Split(SubSeq(text, first + 1, Len(text)), sep)

\* 'Present' in end: some word of end has Present as a substring.
ContainsPresent(end) == \E i \in DOMAIN end : end[i] \in {"Present", "Presently"}

\* Lines 118-131: the years one experience entry adds.
DurationYears(duration) ==
    IF duration = <<>> THEN 0
    ELSE LET parts == Split(duration, EnDash)
         IN  IF Len(parts) # 2 THEN 0
             ELSE LET start == parts[1]
                      end == parts[2]
                  IN  IF start # <<>> /\ end # <<>> /\ ~ContainsPresent(end) THEN 1
                      ELSE IF start # <<>> /\ ContainsPresent(end) THEN 2
                      ELSE 0

RECURSIVE TotalYears(_, _)
\* Lines 116-131: total_years after the entries from entry i.
TotalYears(experience, i) ==
    IF i > Len(experience) THEN 0
    ELSE DurationYears(experience[i].duration) + TotalYears(experience, i + 1)

LevelOfYearsInclusive(total_years) ==
    IF total_years <= 1 * YearsDen THEN "entry"
    ELSE IF total_years <= 3 * YearsDen THEN "mid"
    ELSE "senior"

\* Lines 134-139.
LevelOfYears(total_years) ==
    IF total_years < 1 * YearsDen THEN "entry"
    ELSE IF total_years < 3 * YearsDen THEN "mid"
    ELSE "senior"

\* _determine_experience_level, lines 113-139.
DetermineExperienceLevel(p) == LevelOfYears(TotalYears(p.experience, 1))

\* Lines 146, 151, 156.
ml_keywords == {"python", "pytorch", "tensorflow", "machine learning", "data science",
                "pandas", "numpy"}

web_keywords == {"javascript", "html", "css", "react", "node", "web development",
                 "flask", "django"}

de_keywords == {"sql", "database", "data engineering", "etl", "spark", "hadoop"}

HasKeywordCoreOnly(keywords, skill_map) ==
    \E keyword \in keywords : keyword \in DOMAIN skill_map.core_skills

\* Lines 147, 152, 157: any(keyword in core_skills or keyword in domain_skills ...).
HasKeyword(keywords, skill_map) ==
    \E keyword \in keywords :
        keyword \in DOMAIN skill_map.core_skills \/ keyword \in DOMAIN skill_map.domain_skills

\* _determine_domain_expertise, lines 141-162.
DetermineDomainExpertise(p, skill_map) ==
    (IF HasKeyword(ml_keywords, skill_map) THEN <<"machine_learning">> ELSE <<>>)
        \o (IF HasKeyword(web_keywords, skill_map) THEN <<"web_development">> ELSE <<>>)
        \o (IF HasKeyword(de_keywords, skill_map) THEN <<"data_engineering">> ELSE <<>>)

\* analyze_profile, lines 29-54: the NormalizedCandidate of a profile.
NormalizedCandidate(p) ==
    [profile |-> p,
     skill_map |-> CreateSkillMap(p),
     experience_level |-> DetermineExperienceLevel(p),
     domain_expertise |-> DetermineDomainExpertise(p, CreateSkillMap(p))]

\* technical_skills.languages and .frameworks_technologies: lists with repeated
\* and case-variant entries among them.
DeclaredLanguages ==
    { <<>>, <<"Python">>, <<"Python", "python">>, <<"Python", "SQL">>, <<"Rust">> }

DeclaredFrameworks == { <<>>, <<"PyTorch">>, <<"React">>, <<"React", "react">> }

\* Responsibility and detail lines, split into words.
LineTexts ==
    { <<"Used", "Python", "daily">>,
      <<"Built", "React", "and", "python", "apps">>,
      <<"Managed", "a", "team">> }

\* Experience.duration: absent or empty (<<>>: both are falsy at line 118),
\* "May <en dash> July", "May <en dash> Present",
\* "May - July" (hyphen), "<en dash> Present", "May <en dash>",
\* "May <en dash> June <en dash> July", "May <en dash> Presently".
Durations ==
    { <<>>,
      <<"May", EnDash, "July">>,
      <<"May", EnDash, "Present">>,
      <<"May", "-", "July">>,
      <<EnDash, "Present">>,
      <<"May", EnDash>>,
      <<"May", EnDash, "June", EnDash, "July">>,
      <<"May", EnDash, "Presently">> }

\* The durations of the three kinds the level computation tells apart.
PlainDurations ==
    { <<"May", EnDash, "July">>, <<"May", EnDash, "Present">>, <<"May", "-", "July">> }

ExperienceEntry(duration, responsibilities) ==
    [title |-> "Engineer", company |-> "Acme", duration |-> duration,
     responsibilities |-> responsibilities]

Project(details) == [name |-> "Project", details |-> details]

\* CandidateProfile records: the fields analyze_profile reads.  The first family
\* varies the declared skills, the responsibility lines and the project details;
\* the second varies the number and the durations of the experience entries.
SkillProfiles ==
    {[technical_skills |-> [languages |-> languages, frameworks_technologies |-> frameworks],
      experience |-> experience,
      projects |-> projects] :
        languages \in DeclaredLanguages,
        frameworks \in DeclaredFrameworks,
        experience \in SeqsUpTo({ExperienceEntry(<<"May", EnDash, "Present">>, lines) :
                                    lines \in SeqsUpTo(LineTexts, MaxResponsibilities)}, 2),
        projects \in { <<>>,
                       <<Project(<< <<"Used", "Python", "daily">> >>)>>,
                       <<Project(<< <<"Built", "React", "and", "python", "apps">> >>)>> }}

ExperienceProfiles ==
    {[technical_skills |-> [languages |-> <<"Python">>, frameworks_technologies |-> <<>>],
      experience |-> experience,
      projects |-> <<>>] :
        experience \in
            SeqsUpTo({ExperienceEntry(d, <<>>) : d \in PlainDurations}, MaxExperience)
                \cup SeqsUpTo({ExperienceEntry(d, <<>>) : d \in Durations}, 2)}

CandidateProfiles == SkillProfiles \cup ExperienceProfiles

InitAnalyzer ==
    /\ pc = "ready"
    /\ profile \in CandidateProfiles
    /\ templates = EmptyDict
    /\ candidate = None
    /\ job_requirements = None
    /\ num_questions = 0
    /\ generated = None
    /\ EvaluatorIdle
    /\ AssessmentIdle
    /\ InstantiatorIdle
    /\ SynthesizerIdle
    /\ PersistenceIdle
    /\ CliIdle
    /\ LlmIdle
    /\ StageIdle

\* analyze_profile(profile), lines 29-54.
AnalyzeProfile ==
    /\ pc = "ready"
    /\ candidate' = NormalizedCandidate(profile)
    /\ pc' = "done"
    /\ UNCHANGED <<profile, templates, job_requirements, num_questions, generated,
                   evaluatorVars, assessmentVars, instantiatorVars, synthesizerVars,
                   persistenceVars, cliVars, llmVars, stage>>

NextAnalyzer == AnalyzeProfile

SpecAnalyzer == InitAnalyzer /\ [][NextAnalyzer]_vars

(***************************************************************************)
(* Claims about analyze_profile (checked under SpecAnalyzer)               *)
(***************************************************************************)
\* The number of responsibility lines, over all experience entries, whose
\* lower-cased word set contains the token.
MentioningLines(token) ==
    LET lines == Responsibilities(profile.experience, 1)
    IN  Cardinality({j \in DOMAIN lines : token \in Words(lines[j])})

\* C13: every weight in core_skills, domain_skills and inferred_skills of the
\* SkillMap lies in [0,1], for any number of responsibility lines mentioning a
\* skill.
C13_WeightsInUnitRange ==
    pc = "done" =>
        \A skills \in {candidate.skill_map.core_skills, candidate.skill_map.domain_skills,
                        candidate.skill_map.inferred_skills} :
            \A token \in DOMAIN skills : 0 <= skills[token] /\ skills[token] <= 100

\* C13 witness: a language is declared once and mentioned in four responsibility
\* lines, which would take its weight to 1.2 without the clamp; it is 1.0.
C13_Witness ==
    /\ pc = "done"
    /\ profile.technical_skills.languages = <<"Python">>
    /\ MentioningLines("python") = 4
    /\ candidate.skill_map.core_skills["python"] = 100

\* C14: the weight of each language token is min(1.0, 0.8 + 0.1*k) and of each
\* framework/technology token min(1.0, 0.7 + 0.1*k), k being the number of
\* responsibility lines whose lower-cased word set contains the token: the bonus
\* is applied at most once per line, whatever the declared lists contain
\* (repeated or case-variant entries included).
C14_WeightFormula ==
    pc = "done" =>
        LET languages == profile.technical_skills.languages
            frameworks == profile.technical_skills.frameworks_technologies
        IN  /\ \A i \in DOMAIN languages :
                  candidate.skill_map.core_skills[Lower(languages[i])]
                     = Min(100, 80 + 10 * MentioningLines(Lower(languages[i])))
            /\ \A i \in DOMAIN frameworks :
                  candidate.skill_map.domain_skills[Lower(frameworks[i])]
                     = Min(100, 70 + 10 * MentioningLines(Lower(frameworks[i])))

\* Where C14 does hold: no two entries of a declared list have the same
\* lower-cased form.
C14_FormulaForDistinctEntries ==
    ( /\ pc = "done"
      /\ \A list \in {profile.technical_skills.languages,
                       profile.technical_skills.frameworks_technologies} :
            \A i, j \in DOMAIN list : i # j => Lower(list[i]) # Lower(list[j]) )
    => C14_WeightFormula

\* The level as a number, to compare levels.
LevelRank(level) == CASE level = "entry" -> 1 [] level = "mid" -> 2 [] level = "senior" -> 3

\* C15: the level is entry, mid or senior; it is entry below 1 accrued year, mid
\* from 1 to below 3 and senior from 3; adding an experience entry never lowers it.
C15_LevelByYears ==
    pc = "done" =>
        LET years == TotalYears(profile.experience, 1)
            level == candidate.experience_level
        IN  /\ level \in {"entry", "mid", "senior"}
            /\ level = "entry" <=> years < 1 * YearsDen
            /\ level = "mid" <=> (1 * YearsDen <= years /\ years < 3 * YearsDen)
            /\ level = "senior" <=> years >= 3 * YearsDen
            /\ \A d \in Durations :
                  LET more == [profile EXCEPT !.experience =
                                   Append(@, ExperienceEntry(d, <<>>))]
                  IN  /\ TotalYears(more.experience, 1) >= years
                      /\ LevelRank(DetermineExperienceLevel(more)) >= LevelRank(level)

\* C15 witness: the entries accrue exactly 1 year, the lower threshold, and the
\* level is mid.
C15_Witness ==
    /\ pc = "done"
    /\ TotalYears(profile.experience, 1) = 1 * YearsDen
    /\ candidate.experience_level = "mid"

\* C15, upper threshold: six current positions accrue 3 years and the level is
\* senior.
C15_WitnessSenior ==
    /\ pc = "done"
    /\ TotalYears(profile.experience, 1) = 3 * YearsDen
    /\ candidate.experience_level = "senior"

\* The keys of core_skills and domain_skills.
SkillKeys ==
    DOMAIN candidate.skill_map.core_skills \cup DOMAIN candidate.skill_map.domain_skills

\* C16: domain_expertise contains machine_learning, web_development and
\* data_engineering exactly when a keyword of the domain's set is a key of
\* core_skills or domain_skills; the tags are in that order, none twice (python and
\* pytorch together give machine_learning once).
C16_DomainExpertise ==
    pc = "done" =>
        LET tags == candidate.domain_expertise
            order == <<"machine_learning", "web_development", "data_engineering">>
            Position(tag) == CHOOSE k \in DOMAIN order : order[k] = tag
        IN  /\ Range(tags) \subseteq Range(order)
            /\ "machine_learning" \in Range(tags) <=> ml_keywords \cap SkillKeys # {}
            /\ "web_development" \in Range(tags) <=> web_keywords \cap SkillKeys # {}
            /\ "data_engineering" \in Range(tags) <=> de_keywords \cap SkillKeys # {}
            /\ \A a, b \in DOMAIN tags : a < b => Position(tags[a]) < Position(tags[b])

\* C16 witness: python is a core skill and pytorch a domain skill; the tags are
\* machine_learning, once.
C16_Witness ==
    /\ pc = "done"
    /\ "python" \in DOMAIN candidate.skill_map.core_skills
    /\ "pytorch" \in DOMAIN candidate.skill_map.domain_skills
    /\ "sql" \notin SkillKeys
    /\ candidate.domain_expertise = <<"machine_learning">>

\* C16, all three: python, sql and react are declared and the three tags appear in
\* the fixed order.
C16_WitnessAllThree ==
    /\ pc = "done"
    /\ candidate.domain_expertise = <<"machine_learning", "web_development", "data_engineering">>

(***************************************************************************)
(* AnswerGeneratorService.generate_reference_answers                       *)
(* (services/answer_generator.py); rubric weights are w * WeightDen.       *)
(***************************************************************************)
MaxBatch == 3

\* QuestionType, and one value outside it for a question object whose type is none
\* of the four (the else branch at lines 214-216).
QuestionTypes == {"multiple_choice", "coding", "short_answer", "open_ended", "essay"}

\* Lines 130-212: the key points of the mock answer of a type.
MockKeyPoints(question_type) ==
    CASE question_type = "multiple_choice" ->
            <<"Identifies option C as correct", "Explains why C is correct",
              "Explains why other options are incorrect">>
      [] question_type = "coding" ->
            <<"Correct function definition", "Proper iteration through input",
              "Correct transformation of data", "Return appropriate result",
              "Time/space complexity analysis">>
      [] question_type = "short_answer" ->
            <<"Definition of X", "Relationship to Y and Z", "Application contexts">>
      [] question_type = "open_ended" ->
            <<"Understanding of core principles", "Application to specific context",
              "Analysis of trade-offs", "Formulation of recommendations",
              "Justification of conclusions">>

MockScoringRubricByKeyPoint(question_type) ==
    [k \in Range(MockKeyPoints(question_type)) |->
        IF k = MockKeyPoints(question_type)[1] THEN 30 ELSE 6]

\* Lines 130-212: the scoring rubric of the mock answer of a type.
MockScoringRubric(question_type) ==
    CASE question_type = "multiple_choice" ->
            ("Correct option identification" :> 18) @@ ("Explanation of correct option" :> 24)
                @@ ("Explanation of incorrect options" :> 18)
      [] question_type = "coding" ->
            ("Function correctness" :> 24) @@ ("Algorithm implementation" :> 18)
                @@ ("Code style and documentation" :> 6) @@ ("Complexity analysis" :> 12)
      [] question_type = "short_answer" ->
            ("Accurate definition" :> 24) @@ ("Identifying relationships" :> 18)
                @@ ("Practical applications" :> 18)
      [] question_type = "open_ended" ->
            ("Comprehensive understanding" :> 15) @@ ("Critical analysis" :> 15)
                @@ ("Solution development" :> 15) @@ ("Justification" :> 15)

\* Lines 130, 140, 175, 185: the branches of _generate_reference_answer.
HasMockAnswer(question_type) ==
    question_type \in {"multiple_choice", "coding", "short_answer", "open_ended"}

\* _generate_reference_answer, lines 96-229: None for a type without a branch.
GenerateReferenceAnswer(q, answer_id) ==
    IF HasMockAnswer(q.question_type)
    THEN [answer_id |-> answer_id,
          question_id |-> q.question_id,
          key_points |-> MockKeyPoints(q.question_type),
          scoring_rubric |-> MockScoringRubric(q.question_type)]
    ELSE None

RECURSIVE AnswersUntilUnsupported(_, _, _)
AnswersUntilUnsupported(reference_answers_so_far, qs, i) ==
    IF i > Len(qs) THEN reference_answers_so_far
    ELSE IF ~HasMockAnswer(qs[i].question_type) THEN reference_answers_so_far
    ELSE AnswersUntilUnsupported(
            Append(reference_answers_so_far,
                   GenerateReferenceAnswer(qs[i], Len(reference_answers_so_far) + 1)),
            qs, i + 1)

RECURSIVE AnswerLoop(_, _, _)
\* Lines 84-91: the loop from question i; answer_id stands for the uuid4.  The
\* answer of line 87 is None, and is skipped at line 88, exactly when the type has
\* no branch.
AnswerLoop(reference_answers_so_far, qs, i) ==
    IF i > Len(qs) THEN reference_answers_so_far
    ELSE IF ~HasMockAnswer(qs[i].question_type)
    THEN AnswerLoop(reference_answers_so_far, qs, i + 1)
    ELSE AnswerLoop(
            Append(reference_answers_so_far,
                   GenerateReferenceAnswer(qs[i], Len(reference_answers_so_far) + 1)),
            qs, i + 1)

\* generate_reference_answers, lines 80-94.
GenerateReferenceAnswersOf(qs) == AnswerLoop(<<>>, qs, 1)

\* A batch: the Question records of generate_questions with identities 1..n and
\* any types.
BatchQuestion(i, question_type) ==
    [question_id |-> i,
     template_id |-> i,
     category |-> "core_cs",
     subcategory |-> "dsa",
     question_type |-> question_type,
     difficulty |-> "medium",
     content |-> <<"x">>,
     skills_tested |-> <<>>]

Batches ==
    {[i \in DOMAIN types |-> BatchQuestion(i, types[i])] :
        types \in SeqsUpTo(QuestionTypes, MaxBatch)}

InitSynthesizer ==
    /\ pc = "ready"
    /\ questions \in Batches
    /\ reference_answers = EmptyDict
    /\ candidate_responses = EmptyDict
    /\ assessment_evaluation = None
    /\ answers = <<>>
    /\ EvaluatorIdle
    /\ GeneratorIdle
    /\ InstantiatorIdle
    /\ AnalyzerIdle
    /\ PersistenceIdle
    /\ CliIdle
    /\ LlmIdle
    /\ StageIdle

\* generate_reference_answers(questions), lines 80-94.
GenerateReferenceAnswers ==
    /\ pc = "ready"
    /\ answers' = GenerateReferenceAnswersOf(questions)
    /\ pc' = "done"
    /\ UNCHANGED <<questions, reference_answers, candidate_responses, assessment_evaluation,
                   evaluatorVars, generatorVars, instantiatorVars, analyzerVars,
                   persistenceVars, cliVars, llmVars, stage>>

NextSynthesizer == GenerateReferenceAnswers

SpecSynthesizer == InitSynthesizer /\ [][NextSynthesizer]_vars

(***************************************************************************)
(* Claims about generate_reference_answers (checked under SpecSynthesizer) *)
(***************************************************************************)
\* The positions of the answers built for the question with identity id.
AnswersOf(id) == {j \in DOMAIN answers : answers[j].question_id = id}

\* The types for which a dimension set is defined.
C17_Supported == {"multiple_choice", "coding", "short_answer", "open_ended"}

\* C17: a batch yields at most one ReferenceAnswer per question, each carrying the
\* identity of the question it was built for; a question whose type has no
\* defined dimension set yields no ReferenceAnswer and does not prevent the
\* reference answers of the other questions of the batch.
C17_OneAnswerPerSupportedQuestion ==
    pc = "done" =>
        /\ \A i \in DOMAIN questions :
              /\ Cardinality(AnswersOf(questions[i].question_id)) <= 1
              /\ questions[i].question_type \in C17_Supported
                    => Cardinality(AnswersOf(questions[i].question_id)) = 1
              /\ questions[i].question_type \notin C17_Supported
                    => AnswersOf(questions[i].question_id) = {}
        /\ \A j \in DOMAIN answers :
              \E i \in DOMAIN questions :
                  /\ answers[j].question_id = questions[i].question_id
                  /\ answers[j].key_points = MockKeyPoints(questions[i].question_type)
                  /\ answers[j].scoring_rubric = MockScoringRubric(questions[i].question_type)

\* C17 witness: the second of three questions has an unsupported type; the first
\* and the third have their reference answers and the second has none.
C17_Witness ==
    /\ pc = "done"
    /\ Len(questions) = 3
    /\ questions[1].question_type = "coding"
    /\ questions[2].question_type = "essay"
    /\ questions[3].question_type = "open_ended"
    /\ Len(answers) = 2
    /\ answers[1].question_id = 1
    /\ answers[2].question_id = 3

(***************************************************************************)
(* FilePersistence (utils/persistence.py) over the four directories of     *)
(* initialize_persistence (main.py).  A JSON file is the sequence of its   *)
(* <<field, value>> members in field order.                                *)
(***************************************************************************)
\* main.py lines 88-91: the subfolder of each persistence layer.
Namespaces == {"candidates", "assessments", "responses", "evaluations"}

\* model.__fields__ of the model class of each layer, in declaration order.
ModelFields(namespace) ==
    CASE namespace = "candidates" ->
            <<"profile", "skill_map", "experience_level", "domain_expertise">>
      [] namespace = "assessments" ->
            <<"assessment_id", "candidate_id", "job_id", "created_at", "completed_at",
              "status", "questions", "reference_answers", "metadata">>
      [] namespace = "responses" ->
            <<"response_id", "question_id", "candidate_id", "content", "submitted_at">>
      [] namespace = "evaluations" ->
            <<"evaluation_id", "assessment_id", "candidate_id", "overall_score",
              "question_evaluations", "strengths", "areas_for_improvement",
              "evaluated_at", "metadata">>

\* field.endswith('_id'), on the field names of the four model classes.
EndsWithId(field) ==
    field \in {"assessment_id", "candidate_id", "job_id", "response_id", "question_id",
               "evaluation_id"}

\* Identity values.
Ids == {"id1", "id2"}

\* The entities of each kind: two identities, two contents each (a candidate has
\* no identity field).
Entities(namespace) ==
    CASE namespace = "candidates" ->
            {[profile |-> "profile", skill_map |-> "skill_map",
              experience_level |-> level, domain_expertise |-> <<>>] :
                level \in {"entry", "mid"}}
      [] namespace = "assessments" ->
            {[assessment_id |-> id, candidate_id |-> "c1", job_id |-> "j1",
              created_at |-> "t0", completed_at |-> None, status |-> status,
              questions |-> <<>>, reference_answers |-> <<>>, metadata |-> EmptyDict] :
                id \in Ids, status \in {"created", "completed"}}
      [] namespace = "responses" ->
            {[response_id |-> id, question_id |-> "q1", candidate_id |-> "c1",
              content |-> content, submitted_at |-> "t0"] :
                id \in Ids, content \in {"a", "b"}}
      [] namespace = "evaluations" ->
            {[evaluation_id |-> id, assessment_id |-> "a1", candidate_id |-> "c1",
              overall_score |-> overall_score, question_evaluations |-> <<>>,
              strengths |-> <<>>, areas_for_improvement |-> <<>>,
              evaluated_at |-> "t0", metadata |-> EmptyDict] :
                id \in Ids, overall_score \in {0, Points(65)}}

\* model.json(): the members in field order.
ToJson(fields, model) == [i \in DOMAIN fields |-> <<fields[i], model[fields[i]]>>]

\* model_class.parse_raw(json_data): the model whose fields are the members.
ParseRaw(json_data) ==
    [field \in {json_data[i][1] : i \in DOMAIN json_data} |->
        json_data[CHOOSE i \in DOMAIN json_data : json_data[i][1] = field][2]]

\* Lines 45, 66, 114: f"{id_value}.json".
FileName(id_value) == id_value \o ".json"

\* Lines 31-35: the fields ending with _id, of which save takes the first.
IdFields(fields) == SelectSeq(fields, EndsWithId)

WriteFileKeepExisting(directory, filename, content) ==
    [name \in DOMAIN directory \cup {filename} |->
        IF name \in DOMAIN directory THEN directory[name] ELSE content]

\* Writing a file: the directory with the file created or overwritten.
WriteFile(directory, filename, content) ==
    [name \in DOMAIN directory \cup {filename} |->
        IF name = filename THEN content ELSE directory[name]]

\* save(model), lines 27-60: what it returns and the files afterwards.
SaveOp(files, namespace, model) ==
    LET id_fields == IdFields(ModelFields(namespace))
    IN  IF id_fields = <<>>
        THEN [ok |-> FALSE, store |-> files]
        ELSE [ok |-> TRUE,
              store |-> [files EXCEPT ![namespace] =
                            WriteFile(@, FileName(model[id_fields[1]]),
                                      ToJson(ModelFields(namespace), model))]]

\* load(id_value), lines 62-86: <<>> for None, <<model>> for a model.
LoadOp(files, namespace, id_value) ==
    IF FileName(id_value) \notin DOMAIN files[namespace] THEN <<>>
    ELSE <<ParseRaw(files[namespace][FileName(id_value)])>>

\* load_all(), lines 88-108: the models of the files, in any order of the glob.
LoadAllOp(files, namespace) ==
    {[i \in DOMAIN order |-> ParseRaw(files[namespace][order[i]])] :
        order \in InjectiveSeqs(DOMAIN files[namespace],
                                Cardinality(DOMAIN files[namespace]))}

\* delete(id_value), lines 110-130.
DeleteOp(files, namespace, id_value) ==
    IF FileName(id_value) \notin DOMAIN files[namespace]
    THEN [ok |-> FALSE, store |-> files]
    ELSE [ok |-> TRUE,
          store |-> [files EXCEPT ![namespace] =
                        [name \in DOMAIN @ \ {FileName(id_value)} |-> @[name]]]]

\* __init__, lines 20-25, for the four layers: the directories exist and are empty.
EmptyStore == [namespace \in Namespaces |-> EmptyDict]

InitPersistence ==
    /\ pc = "ready"
    /\ store = EmptyStore
    /\ persistence_result = NoCall
    /\ EvaluatorIdle
    /\ AssessmentIdle
    /\ GeneratorIdle
    /\ InstantiatorIdle
    /\ AnalyzerIdle
    /\ SynthesizerIdle
    /\ CliIdle
    /\ LlmIdle
    /\ StageIdle

otherThanPersistenceVars ==
    <<pc, evaluatorVars, assessmentVars, generatorVars, instantiatorVars, analyzerVars,
      synthesizerVars, cliVars, llmVars, stage>>

\* save(model) on one of the layers.
Save ==
    \E namespace \in Namespaces : \E model \in Entities(namespace) :
        LET result == SaveOp(store, namespace, model)
        IN  /\ store' = result.store
            /\ persistence_result' = [op |-> "save", namespace |-> namespace,
                                      saved |-> <<model>>, id |-> "none",
                                      ok |-> result.ok, loaded |-> <<>>]
            /\ UNCHANGED otherThanPersistenceVars

\* load(id_value) on one of the layers.
Load ==
    \E namespace \in Namespaces : \E id_value \in Ids :
        /\ persistence_result' = [op |-> "load", namespace |-> namespace,
                                  saved |-> <<>>, id |-> id_value,
                                  ok |-> LoadOp(store, namespace, id_value) # <<>>,
                                  loaded |-> LoadOp(store, namespace, id_value)]
        /\ UNCHANGED <<store, otherThanPersistenceVars>>

\* load_all() on one of the layers.
LoadAll ==
    \E namespace \in Namespaces : \E models \in LoadAllOp(store, namespace) :
        /\ persistence_result' = [op |-> "load_all", namespace |-> namespace,
                                  saved |-> <<>>, id |-> "none",
                                  ok |-> TRUE, loaded |-> models]
        /\ UNCHANGED <<store, otherThanPersistenceVars>>

\* delete(id_value) on one of the layers.
Delete ==
    \E namespace \in Namespaces : \E id_value \in Ids :
        LET result == DeleteOp(store, namespace, id_value)
        IN  /\ store' = result.store
            /\ persistence_result' = [op |-> "delete", namespace |-> namespace,
                                      saved |-> <<>>, id |-> id_value,
                                      ok |-> result.ok, loaded |-> <<>>]
            /\ UNCHANGED otherThanPersistenceVars

NextPersistence == Save \/ Load \/ LoadAll \/ Delete

SpecPersistence == InitPersistence /\ [][NextPersistence]_vars

(***************************************************************************)
(* Claims about FilePersistence (checked under SpecPersistence)            *)
(***************************************************************************)
\* The identity of an entity of a kind, for the kinds that have one.
C18_Identity(namespace, model) ==
    CASE namespace = "assessments" -> model.assessment_id
      [] namespace = "responses" -> model.response_id
      [] namespace = "evaluations" -> model.evaluation_id

\* After a save of the entity: the save succeeded and a load by the entity's
\* identity returns an equal entity.
C18_SavedAndLoadable(namespace, model) ==
    /\ persistence_result.ok
    /\ \E name \in DOMAIN store[namespace] : ParseRaw(store[namespace][name]) = model
    /\ namespace # "candidates"
          => LoadOp(store, namespace, C18_Identity(namespace, model)) = <<model>>

\* C18: for each of the four entity kinds (candidates, assessments, responses,
\* evaluations) a save succeeds and stores the entity under its own identity, so
\* that a later load by that identity returns an equal entity.
C18_SaveThenLoad ==
    persistence_result.op = "save" =>
        C18_SavedAndLoadable(persistence_result.namespace, persistence_result.saved[1])

\* Where C18 does hold: the three kinds whose model has an identity field.
C18_SaveThenLoadWithIdentity ==
    ( persistence_result.op = "save" /\ persistence_result.namespace # "candidates" ) =>
        C18_SavedAndLoadable(persistence_result.namespace, persistence_result.saved[1])

\* A candidate was saved: the save reported failure and no file was written.
C18_CandidateNotSaved ==
    /\ persistence_result.op = "save"
    /\ persistence_result.namespace = "candidates"
    /\ ~persistence_result.ok
    /\ store["candidates"] = EmptyDict

(***************************************************************************)
(* The commands of main.py: generate_assessment and evaluate_assessment.   *)
(* A JSON document is a record: whether the file can be read and decoded,  *)
(* and what it holds.  A returned value is <<>> for None and <<v>> for v.  *)
(***************************************************************************)
\* validation.py lines 14 and 105, and the required list of the template schema.
SchemaRequired(schema_type) ==
    CASE schema_type = "resume" -> {"name", "contact", "technical_skills"}
      [] schema_type = "job_description" -> {"title", "requirements", "required_skills"}
      [] schema_type = "question_template" ->
            {"template_id", "category", "subcategory", "question_type", "difficulty",
             "template_text"}

ValidateJsonNothingRequired(data, schema_type) ==
    schema_type \in {"resume", "job_description", "question_template"}

\* validate_json, lines 154-178: TRUE for (True, None).  The documents of the model
\* satisfy the type constraints of the schemas; they differ in the members present.
ValidateJson(data, schema_type) ==
    IF schema_type \notin {"resume", "job_description", "question_template"}
    THEN FALSE
    ELSE SchemaRequired(schema_type) \subseteq data.fields

\* load_and_validate_json, lines 180-200: TRUE when the data are returned, FALSE
\* when an error is.
LoadAndValidateJson(document, schema_type) ==
    IF ~document.readable THEN FALSE ELSE ValidateJson(document, schema_type)

ResumeDocuments ==
    {[readable |-> readable, fields |-> fields, normalizable |-> normalizable] :
        readable \in BOOLEAN,
        fields \in SUBSET {"name", "contact", "technical_skills"},
        normalizable \in BOOLEAN}

JobDocuments ==
    {[readable |-> readable, fields |-> fields, required_skills |-> required_skills] :
        readable \in BOOLEAN,
        fields \in SUBSET {"title", "requirements", "required_skills"},
        required_skills \in {{}, {"sql"}}}

\* A responses document: a list of up to two response objects for questions 1, 2.
ResponsesDocuments ==
    {[readable |-> readable, responses |-> responses] :
        readable \in BOOLEAN,
        responses \in SeqsUpTo({[question_id |-> q, response_text |-> "text"] : q \in 1..2}, 2)}

\* The CandidateProfile of a normalizable resume.
CliProfile ==
    [technical_skills |-> [languages |-> <<"Python">>, frameworks_technologies |-> <<>>],
     experience |-> <<ExperienceEntry(<<"May", EnDash, "Present">>,
                                      << <<"Used", "Python", "daily">> >>)>>,
     projects |-> <<>>]

\* The templates the question generator of the command loaded.
CliCatalog == [i \in 1..3 |-> PoolTemplate(i)]

\* generate_questions for N >= 0 (question_generator.py lines 55-79): the lists of
\* questions it can return.
QuestionLists(catalog, cand, job, n) ==
    LET filtered == FilterTemplates(catalog, cand, job)
        pool == SelectionPool(filtered, cand, n)
        k == Min(n, Len(pool))
    IN  IF filtered = <<>> THEN {<<>>}
        ELSE UNION {
                {[i \in DOMAIN selected |-> QuestionFromTemplate(selected[i], i, choices[i])] :
                    choices \in {c \in [DOMAIN selected ->
                                           UNION {Replacements(selected[i]) : i \in DOMAIN selected}] :
                                    \A i \in DOMAIN selected : c[i] \in Replacements(selected[i])}} :
                selected \in Samples(pool, k)}

\* main.py lines 182-193: the Assessment; the uuid4 values are given.
NewAssessment(assessment_id, qs, reference_answers_list) ==
    [assessment_id |-> assessment_id, candidate_id |-> "c1", job_id |-> "j1",
     created_at |-> "t0", completed_at |-> None, status |-> "created",
     questions |-> qs, reference_answers |-> reference_answers_list,
     metadata |-> EmptyDict]

InitCli ==
    /\ pc = "ready"
    /\ store = EmptyStore
    /\ persistence_result = NoCall
    /\ cli_input = None
    /\ calls = <<>>
    /\ cli_result = <<>>
    /\ EvaluatorIdle
    /\ AssessmentIdle
    /\ GeneratorIdle
    /\ InstantiatorIdle
    /\ AnalyzerIdle
    /\ SynthesizerIdle
    /\ LlmIdle
    /\ StageIdle

otherThanCliVars ==
    <<persistence_result, evaluatorVars, assessmentVars, generatorVars, instantiatorVars,
      analyzerVars, synthesizerVars, llmVars, stage>>

\* generate_assessment(services, persistence, resume_path, jd_path, num_questions),
\* lines 136-218, run on an empty output directory.
GenerateAssessment ==
    /\ pc = "ready"
    /\ \E resume \in ResumeDocuments, job_description \in JobDocuments, n \in 0..2 :
          /\ cli_input' = [command |-> "generate", resume |-> resume,
                           job_description |-> job_description, num_questions |-> n]
          /\ IF ~LoadAndValidateJson(resume, "resume")
             THEN calls' = <<>> /\ cli_result' = <<>> /\ store' = store
             ELSE IF ~LoadAndValidateJson(job_description, "job_description")
             THEN calls' = <<>> /\ cli_result' = <<>> /\ store' = store
             ELSE IF ~resume.normalizable
             THEN calls' = <<"normalize_resume">> /\ cli_result' = <<>> /\ store' = store
             ELSE LET normalized_candidate == NormalizedCandidate(CliProfile)
                      candidate_saved == SaveOp(store, "candidates", normalized_candidate)
                      jd_data == [required_skills |-> job_description.required_skills]
                  IN  \E qs \in QuestionLists(CliCatalog, normalized_candidate, jd_data, n) :
                         LET assessment ==
                                NewAssessment("id1", qs, GenerateReferenceAnswersOf(qs))
                         IN  /\ calls' = <<"normalize_resume", "analyze_profile",
                                            "candidate.save", "generate_questions",
                                            "generate_reference_answers", "assessment.save">>
                             /\ store' = SaveOp(candidate_saved.store, "assessments",
                                                assessment).store
                             /\ cli_result' = <<assessment>>
    /\ pc' = "generated"
    /\ UNCHANGED otherThanCliVars

\* evaluate_assessment(services, persistence, assessment_id, responses_path), lines
\* 220-293.  Past line 234 the CandidateResponse of line 239 lacks the required
\* candidate_id and content, and EvaluatorService has no calculate_overall_score
\* (line 284): the function raises.
EvaluateAssessmentCommand ==
    /\ pc \in {"ready", "generated"}
    /\ \E assessment_id \in Ids, responses \in ResponsesDocuments :
          /\ cli_input' = [command |-> "evaluate", assessment_id |-> assessment_id,
                           responses |-> responses]
          /\ IF LoadOp(store, "assessments", assessment_id) = <<>>
             THEN calls' = <<"assessment.load">> /\ cli_result' = <<>>
             ELSE IF ~LoadAndValidateJson(responses, "responses")
             THEN calls' = <<"assessment.load">> /\ cli_result' = <<>>
             ELSE calls' = <<"assessment.load", "raise">> /\ cli_result' = <<>>
    /\ pc' = "done"
    /\ UNCHANGED <<store, otherThanCliVars>>

NextCli == GenerateAssessment \/ EvaluateAssessmentCommand

SpecCli == InitCli /\ [][NextCli]_vars

(***************************************************************************)
(* Claims about the commands (checked under SpecCli)                       *)
(***************************************************************************)
\* C19: generate_assessment rejects a resume lacking name, contact or
\* technical_skills, and a job description lacking title, requirements or
\* required_skills, before any core component runs: no normalization, analysis,
\* question generation or answer generation is invoked, nothing is persisted and
\* no assessment is returned.
C19_RejectedBeforeCore ==
    ( /\ pc = "generated"
      /\ \/ ~({"name", "contact", "technical_skills"} \subseteq cli_input.resume.fields)
         \/ ~({"title", "requirements", "required_skills"}
                 \subseteq cli_input.job_description.fields) )
    => /\ calls = <<>>
       /\ store = EmptyStore
       /\ cli_result = <<>>

\* C19 witness: a readable, normalizable resume that lacks only contact, with a
\* complete job description, was rejected.
C19_Witness ==
    /\ pc = "generated"
    /\ cli_input.resume = [readable |-> TRUE, fields |-> {"name", "technical_skills"},
                          normalizable |-> TRUE]
    /\ cli_input.job_description.readable
    /\ cli_input.job_description.fields = {"title", "requirements", "required_skills"}
    /\ calls = <<>>
    /\ cli_result = <<>>

\* C19, the other document: a complete resume with a job description that lacks
\* required_skills was rejected.
C19_WitnessJobDescription ==
    /\ pc = "generated"
    /\ cli_input.resume = [readable |-> TRUE,
                          fields |-> {"name", "contact", "technical_skills"},
                          normalizable |-> TRUE]
    /\ cli_input.job_description.readable
    /\ cli_input.job_description.fields = {"title", "requirements"}
    /\ calls = <<>>
    /\ cli_result = <<>>

\* C19, the accepted case: complete documents gave an assessment, persisted under
\* its identity.
C19_WitnessAccepted ==
    /\ pc = "generated"
    /\ cli_result # <<>>
    /\ Len(cli_result[1].questions) = 2
    /\ LoadOp(store, "assessments", "id1") # <<>>

\* C20: the evaluate command, given the identity of a persisted assessment and a
\* well-formed responses document, evaluates the responses and produces and
\* persists an AssessmentEvaluation.
C20_EvaluatesAndPersists ==
    ( /\ pc = "done"
      /\ cli_input.responses.readable
      /\ LoadOp(store, "assessments", cli_input.assessment_id) # <<>> )
    => /\ cli_result # <<>>
       /\ store["evaluations"] # EmptyDict

\* What the evaluate command does instead: whatever the assessment and the
\* responses document, it returns nothing and persists neither a response nor an
\* evaluation.
C20_EvaluateReturnsNothing ==
    pc = "done" =>
        /\ cli_result = <<>>
        /\ store["evaluations"] = EmptyDict
        /\ store["responses"] = EmptyDict

\* The evaluate command ran on a persisted assessment with two readable responses.
C20_EvaluateRan ==
    /\ pc = "done"
    /\ cli_input.responses.readable
    /\ Len(cli_input.responses.responses) = 2
    /\ LoadOp(store, "assessments", cli_input.assessment_id) # <<>>

(***************************************************************************)
(* LLMService (utils/llm_utils.py) and the use the services make of the    *)
(* LLM configuration                                                       *)
(***************************************************************************)
\* An LLM configuration and its environment: the configured provider, whether the
\* LangChain import of lines 9-16 succeeded, whether the API key of the provider
\* is set, and whether the remote service answers a request.
LlmConfigs ==
    [provider : {"mock", "openai", "openrouter"},
     langchain_available : BOOLEAN,
     api_key : BOOLEAN,
     service_up : BOOLEAN]

\* LLMService.__init__, lines 26 and 42-45: self.provider after construction.
Provider(config) ==
    IF ~config.langchain_available /\ config.provider # "mock"
          /\ config.provider # "openrouter"
    THEN "mock"
    ELSE config.provider

MockText == "mock text"

RealText == "text of the remote model"

\* _openrouter_generate_text, lines 150-213: None without a key, on a status other
\* than 200 and on an exception of the request.
OpenRouterGenerateText(config) ==
    IF ~config.api_key THEN None
    ELSE IF config.service_up THEN RealText
    ELSE None

\* generate_text, lines 112-148: the value returned.
GenerateTextOf(config) ==
    IF Provider(config) = "mock" THEN MockText
    ELSE IF Provider(config) = "openrouter" THEN OpenRouterGenerateText(config)
    ELSE IF config.api_key /\ config.service_up THEN RealText
    ELSE None

\* The reference answers evaluated in this specification: those without rubric.
ProductionReferenceAnswers ==
    {ra \in ReferenceAnswers : DOMAIN ra.scoring_rubric = {}}

\* One of the three operations is run by services built with some configuration
\* (initialize_services, main.py lines 52-81).
InitProduction ==
    /\ pc = "ready"
    /\ llm_config \in LlmConfigs
    /\ generated_text = <<>>
    /\ stage \in {"generate_reference_answers", "evaluate_response", "generate_text"}
    /\ IF stage = "generate_reference_answers"
       THEN questions \in Batches
       ELSE questions = <<>>
    /\ IF stage = "evaluate_response"
       THEN reference_answer \in ProductionReferenceAnswers
       ELSE reference_answer = None
    /\ raw_score = 0
    /\ evaluation = None
    /\ reference_answers = EmptyDict
    /\ candidate_responses = EmptyDict
    /\ assessment_evaluation = None
    /\ answers = <<>>
    /\ GeneratorIdle
    /\ InstantiatorIdle
    /\ AnalyzerIdle
    /\ PersistenceIdle
    /\ CliIdle

\* generate_text(prompt), lines 112-148.
GenerateText ==
    /\ pc = "ready"
    /\ generated_text' = <<GenerateTextOf(llm_config)>>
    /\ pc' = "done"
    /\ UNCHANGED <<llm_config, stage, evaluatorVars, assessmentVars, generatorVars,
                   instantiatorVars, analyzerVars, synthesizerVars, persistenceVars,
                   cliVars>>

\* The services never read their llm_config after logging it
\* (answer_generator.py lines 23-25, evaluator.py lines 155-156): the operations
\* are those of the other specifications.
NextProduction ==
    \/ stage = "generate_reference_answers" /\ GenerateReferenceAnswers
    \/ stage = "evaluate_response" /\ EvaluateResponse
    \/ stage = "generate_text" /\ GenerateText

SpecProduction == InitProduction /\ [][NextProduction]_vars

(***************************************************************************)
(* Claims about the text generation collaborator (checked under            *)
(* SpecProduction)                                                         *)
(***************************************************************************)
\* A production configuration: the provider is not the test stand-in.
C21_Production == llm_config.provider # "mock"

\* The text generation service cannot answer: its library, its key or the remote
\* service is missing.
C21_Unavailable ==
    \/ ~llm_config.service_up
    \/ ~llm_config.api_key
    \/ llm_config.provider = "openai" /\ ~llm_config.langchain_available

\* The operation returned stand-in content: a reference answer, a
\* QuestionEvaluation (every one is built from random match scores), or the mock
\* text.
C21_StandInReturned ==
    /\ pc = "done"
    /\ \/ stage = "generate_reference_answers" /\ answers # <<>>
       \/ stage = "evaluate_response"
       \/ stage = "generate_text" /\ generated_text = <<MockText>>

\* C21: in a production configuration whose text generation service is
\* unavailable, rubric synthesis, response evaluation and text generation return
\* no stand-in content.
C21_NoStandInInProduction ==
    (C21_Production /\ C21_Unavailable) => ~C21_StandInReturned

\* What the code does instead: rubric synthesis and evaluation return the same
\* stand-in content under every configuration.
C21_StandInUnderEveryConfiguration ==
    pc = "done" =>
        /\ stage = "generate_reference_answers" =>
              answers = GenerateReferenceAnswersOf(questions)
        /\ stage = "evaluate_response" =>
              \E m \in MatchOutcomes(reference_answer) :
                  evaluation = QuestionEvaluation("q", "r",
                                   MockEvaluateResponse(reference_answer, m))

(***************************************************************************)
(* Claims about the order of the per-question evaluations (checked under   *)
(* SpecAssessment)                                                         *)
(***************************************************************************)
\* The outcome of the random matching that question id was evaluated with.
C22_MatchesOf(ae, id) ==
    IF EvaluationsOf(ae, id) = {} THEN EmptyDict
    ELSE ae.question_evaluations[CHOOSE j \in EvaluationsOf(ae, id) : TRUE].key_points_matched

\* The overall score evaluate_assessment computes when the questions are taken in
\* the order perm, the evaluation of questions[i] having the outcome outcomes[i],
\* with the responses resps.
C22_OverallInOrder(outcomes, perm, resps) ==
    LET qs == [k \in DOMAIN perm |-> questions[perm[k]]]
        matches == [k \in DOMAIN perm |-> outcomes[perm[k]]]
        acc == EvaluationLoop(LoopStart, qs, reference_answers, resps, matches, 1)
    IN  OverallScore(acc.total_score, acc.question_count)

\* The responses without the one to question id.
C22_Without(id) ==
    [i \in DOMAIN candidate_responses \ {id} |-> candidate_responses[i]]

\* The order 1..n with the first two questions exchanged.
C22_Exchange(n) ==
    [k \in 1..n |-> IF k = 1 THEN 2 ELSE IF k = 2 THEN 1 ELSE k]

\* The order 2, 3, ..., n, 1.
C22_Rotation(n) == [k \in 1..n |-> (k % n) + 1]

\* The orders in which n questions are taken: every order of up to four
\* questions; of more, the exchange of the first two and the rotation, which
\* generate every order.
C22_Orders ==
    [n \in 0..MaxQuestions |->
        IF n <= 4 THEN InjectiveSeqs(1..n, n)
        ELSE {C22_Exchange(n), C22_Rotation(n)}]

\* Two fractions are the same number.
C22_SameNumber(a, b) == a.num * b.den = b.num * a.den

PipelineStages ==
    {"analyze_profile", "generate_questions", "generate_reference_answers",
     "evaluate_response", "evaluate_assessment"}

\* Profiles with at most one experience entry of at most one line.
StageProfiles ==
    {p \in SkillProfiles :
        /\ Len(p.experience) <= 1
        /\ \A i \in DOMAIN p.experience : Len(p.experience[i].responsibilities) <= 1}

\* Catalogs of the first four templates.
StageCatalogs == {catalog \in Catalogs : DOMAIN catalog \subseteq 1..4}

\* Reference answers of at most two key points.
StageReferenceAnswers == {ra \in ReferenceAnswers : Len(ra.key_points) <= 2}

\* Batches of at most two questions.
StageBatches == {batch \in Batches : Len(batch) <= 2}

InitStages ==
    /\ pc = "ready"
    /\ stage \in PipelineStages
    /\ IF stage = "analyze_profile"
       THEN profile \in StageProfiles
       ELSE profile = None
    /\ IF stage = "generate_questions"
       THEN /\ templates \in StageCatalogs
            /\ candidate \in Candidates
            /\ job_requirements \in JobRequirements
            /\ num_questions \in 0..2
       ELSE /\ templates = EmptyDict
            /\ candidate = None
            /\ job_requirements = None
            /\ num_questions = 0
    /\ generated = None
    /\ IF stage = "evaluate_response"
       THEN reference_answer \in StageReferenceAnswers
       ELSE reference_answer = None
    /\ raw_score = 0
    /\ evaluation = None
    /\ IF stage = "generate_reference_answers"
       THEN /\ questions \in StageBatches
            /\ reference_answers = EmptyDict
            /\ candidate_responses = EmptyDict
       ELSE IF stage = "evaluate_assessment"
       THEN \E bank \in DOMAIN SubcategoryBanks, n \in 0..2 :
               /\ questions = [i \in 1..n |-> BankQuestion(bank, i)]
               /\ \E ids \in SUBSET (1..n) :
                     reference_answers = [i \in ids |-> BankReferenceAnswer(i)]
               /\ \E ids \in SUBSET (1..n) :
                     candidate_responses = [i \in ids |-> BankResponse(i)]
       ELSE /\ questions = <<>>
            /\ reference_answers = EmptyDict
            /\ candidate_responses = EmptyDict
    /\ assessment_evaluation = None
    /\ answers = <<>>
    /\ InstantiatorIdle
    /\ PersistenceIdle
    /\ CliIdle
    /\ LlmIdle

NextStages ==
    \/ stage = "analyze_profile" /\ AnalyzeProfile
    \/ stage = "generate_questions" /\ GenerateQuestions
    \/ stage = "generate_reference_answers" /\ GenerateReferenceAnswers
    \/ stage = "evaluate_response" /\ EvaluateResponse
    \/ stage = "evaluate_assessment" /\ EvaluateAssessment

SpecStages == InitStages /\ [][NextStages]_vars

(***************************************************************************)
(* Claims about the stages' inputs (checked under SpecStages)              *)
(***************************************************************************)
\* C23: no stage changes its inputs: analyze_profile leaves the CandidateProfile
\* as it was; generate_questions the catalog, the NormalizedCandidate and the job
\* requirements (with or without the difficulty fallback); generate_reference_answers
\* the questions; evaluate_response the reference answer; evaluate_assessment the
\* questions, the reference answers and the responses.
C23_InputsUnchanged ==
    [][/\ stage = "analyze_profile" => profile' = profile
       /\ stage = "generate_questions" =>
             /\ templates' = templates
             /\ candidate' = candidate
             /\ job_requirements' = job_requirements
       /\ stage = "generate_reference_answers" => questions' = questions
       /\ stage = "evaluate_response" => reference_answer' = reference_answer
       /\ stage = "evaluate_assessment" =>
             /\ questions' = questions
             /\ reference_answers' = reference_answers
             /\ candidate_responses' = candidate_responses]_vars

\* C23 witness: generate_questions took the difficulty fallback and generated a
\* question from a template with variables, substituting one.
C23_Witness ==
    /\ pc = "done"
    /\ stage = "generate_questions"
    /\ Len(DifficultyFiltered(generated.filtered, candidate)) < num_questions
    /\ \E i \in DOMAIN generated.questions :
          /\ generated.selected[i].variables # <<>>
          /\ generated.questions[i].content # generated.selected[i].template_text

(***************************************************************************)
(* Claims about the duration of an experience entry (checked under         *)
(* SpecAnalyzer)                                                           *)
(***************************************************************************)
\* The duration is a span "start <en dash> end" with a start and an end.
C24_IsSpan(duration) ==
    /\ Len(Split(duration, EnDash)) = 2
    /\ Split(duration, EnDash)[1] # <<>>
    /\ Split(duration, EnDash)[2] # <<>>

\* The years, in quarters, the entry accrues by the rule: half a year for a span
\* whose end is the literal Present, a quarter for any other span, nothing for a
\* duration that is no span.
C24_Accrual(duration) ==
    IF ~C24_IsSpan(duration) THEN 0
    ELSE IF Split(duration, EnDash)[2] = <<"Present">> THEN 2
    ELSE 1

\* The years of all entries by the rule.
C24_Years ==
    SumSeq([i \in DOMAIN profile.experience |-> C24_Accrual(profile.experience[i].duration)])

\* C24: every experience entry accrues 0.5 years if its duration is a span ending
\* in the literal Present, 0.25 years if it is any other span, and nothing if it
\* is no span; the level is that of the sum, whatever entries are skipped.
C24_AccrualByRule ==
    pc = "done" => candidate.experience_level = LevelOfYears(C24_Years)

\* The rule does describe the code when no entry's end merely contains Present.
C24_AccrualWhenEndIsLiteral ==
    (/\ pc = "done"
     /\ \A i \in DOMAIN profile.experience :
           LET duration == profile.experience[i].duration
           IN  C24_IsSpan(duration) /\ ContainsPresent(Split(duration, EnDash)[2])
                  => Split(duration, EnDash)[2] = <<"Present">>)
        => candidate.experience_level = LevelOfYears(C24_Years)

\* Two spans ending in Presently, and a level that is not the rule's.
C24_ContainsPresentCase ==
    /\ pc = "done"
    /\ Len(profile.experience) = 2
    /\ \A i \in DOMAIN profile.experience :
          profile.experience[i].duration = <<"May", EnDash, "Presently">>
    /\ candidate.experience_level = "mid"

(***************************************************************************)
(* Claims about project_validated_skills (checked under SpecAnalyzer)      *)
(***************************************************************************)
\* The declared languages and frameworks of the profile.
C25_Declared ==
    Range(profile.technical_skills.languages)
        \cup Range(profile.technical_skills.frameworks_technologies)

\* The skill tokens (lower-cased declared skills) found in some project detail line.
C25_TokensFound ==
    LET lines == Details(profile.projects, 1)
    IN  {Lower(d) : d \in {d \in C25_Declared :
                              \E j \in DOMAIN lines : Lower(d) \in Words(lines[j])}}

\* The project lines change no weight, and nothing is inferred.
C25_WeightsUntouched ==
    LET skill_map == candidate.skill_map
        without == CreateSkillMap([profile EXCEPT !.projects = <<>>])
    IN  /\ skill_map.core_skills = without.core_skills
        /\ skill_map.domain_skills = without.domain_skills
        /\ skill_map.inferred_skills = EmptyDict

\* C25: project_validated_skills holds exactly the skill tokens found in the
\* project detail lines, none of them twice whatever the declared lists contain;
\* the project lines change no weight of core_skills or domain_skills, and
\* inferred_skills is empty.
C25_ValidatedSkillsAreSet ==
    pc = "done" =>
        LET validated == candidate.skill_map.project_validated_skills
        IN  /\ {Lower(validated[i]) : i \in DOMAIN validated} = C25_TokensFound
            /\ \A i, j \in DOMAIN validated :
                  i # j => Lower(validated[i]) # Lower(validated[j])
            /\ C25_WeightsUntouched

\* What the code guarantees: the found tokens are covered, no declared string is
\* listed twice, and the weights are untouched.
C25_NoStringTwice ==
    pc = "done" =>
        LET validated == candidate.skill_map.project_validated_skills
        IN  /\ {Lower(validated[i]) : i \in DOMAIN validated} = C25_TokensFound
            /\ \A i, j \in DOMAIN validated : i # j => validated[i] # validated[j]
            /\ C25_WeightsUntouched

(***************************************************************************)
(* Claims about sequences of FilePersistence operations (checked under     *)
(* SpecPersistence)                                                        *)
(***************************************************************************)
\* The entities a layer holds: what load returns for some identity.
C26_Stored(files, namespace) ==
    {LoadOp(files, namespace, id_value)[1] :
        id_value \in {id_value \in Ids : LoadOp(files, namespace, id_value) # <<>>}}

\* Every identity other than id_value loads as before the step.
C26_OthersKept(namespace, id_value) ==
    \A other \in Ids \ {id_value} :
        LoadOp(store', namespace, other) = LoadOp(store, namespace, other)

\* C26: each namespace is a map from identity to entity.  A save makes load of the
\* saved identity return the saved entity and changes no other identity; a delete
\* of a stored identity makes its load return nothing and changes no other
\* identity; a delete of an absent identity reports failure and leaves the store
\* as it was; load and load_all change nothing and return what is stored (load_all
\* every stored entity once); and no operation changes another namespace.  By
\* induction over the sequence, load returns the entity most recently saved under
\* the identity and not deleted since.
C26_NamespaceIsMap ==
    [][LET result == persistence_result'
           namespace == result.namespace
       IN  /\ \A other \in Namespaces \ {namespace} : store'[other] = store[other]
           /\ (result.op = "save" /\ result.ok) =>
                 /\ LoadOp(store', namespace, C18_Identity(namespace, result.saved[1]))
                       = result.saved
                 /\ C26_OthersKept(namespace, C18_Identity(namespace, result.saved[1]))
           /\ (result.op = "save" /\ ~result.ok) => store' = store
           /\ result.op = "delete" =>
                 /\ result.ok = (LoadOp(store, namespace, result.id) # <<>>)
                 /\ LoadOp(store', namespace, result.id) = <<>>
                 /\ C26_OthersKept(namespace, result.id)
                 /\ ~result.ok => store' = store
           /\ result.op = "load" =>
                 /\ store' = store
                 /\ result.loaded = LoadOp(store, namespace, result.id)
           /\ result.op = "load_all" =>
                 /\ store' = store
                 /\ Range(result.loaded) = C26_Stored(store, namespace)
                 /\ Len(result.loaded) = Cardinality(C26_Stored(store, namespace))
      ]_vars

\* C26 witness: after saves in two namespaces, a delete of an absent identity has
\* just failed while its namespace holds the other identity, saved as completed,
\* and another namespace holds two entities.
C26_Witness ==
    /\ persistence_result.op = "delete"
    /\ ~persistence_result.ok
    /\ persistence_result.namespace = "assessments"
    /\ Cardinality(C26_Stored(store, "assessments")) = 1
    /\ Cardinality(C26_Stored(store, "responses")) = 2
    /\ \E e \in C26_Stored(store, "assessments") : e.status = "completed"

(***************************************************************************)
(* Claims about the rubric of a generated reference answer (checked under  *)
(* SpecSynthesizer)                                                        *)
(***************************************************************************)
\* Outcomes of the matching of a reference answer: all key points alike, or the
\* first one matched and the others not.
C27_Matches(ra) ==
    {[k \in Range(ra.key_points) |-> v] : v \in {0, 500, 1000}}
        \cup {[k \in Range(ra.key_points) |-> IF k = ra.key_points[1] THEN 1000 ELSE 0]}

\* The reference answer with another rubric.
C27_WithRubric(ra, rubric) == [ra EXCEPT !.scoring_rubric = rubric]

C28_EmptyKeyPoints ==
    (pc = "done" /\ reference_answer.key_points = <<>>) =>
        /\ raw_score = 0
        /\ evaluation.score = Points(0)
        /\ evaluation.key_points_matched = EmptyDict
        /\ evaluation.feedback = InsufficientText

\* C28 witness: a reference answer with no key points and a rubric of two
\* entries was evaluated.
C28_Witness ==
    /\ pc = "done"
    /\ reference_answer.key_points = <<>>
    /\ DOMAIN reference_answer.scoring_rubric = KeyPointNames
    /\ evaluation.score = Points(0)

(***************************************************************************)
(* Claims about the question count of generate_questions (checked under    *)
(* SpecGenerator)                                                          *)
(***************************************************************************)
\* C29: generate_questions returns a list, possibly empty, and raises nothing, for
\* every integer N, negative ones included, and every catalog, candidate and job
\* requirements.
C29_NeverRaises ==
    pc = "done" => ~generated.raised

\* When it does raise: exactly for a negative N with a template passing the skill
\* filter.
C29_RaisesIffNegativeAndFiltered ==
    pc = "done" =>
        (generated.raised <=> (num_questions < 0 /\ generated.filtered # <<>>))

(***************************************************************************)
(* The two input validators on the same document:                          *)
(* DataIntegrationService.validate_data (services/data_integration.py) and *)
(* validate_json (utils/validation.py)                                     *)
(***************************************************************************)
\* validate_data lines 56-59: the required fields per schema type.
DataRequired(schema_type) ==
    CASE schema_type = "resume" -> {"name", "contact", "technical_skills"}
      [] schema_type = "job_description" -> {"title", "requirements", "company"}

\* validate_data, lines 52-70.
ValidateData(data, schema_type) ==
    IF schema_type \notin {"resume", "job_description"}
    THEN FALSE
    ELSE DataRequired(schema_type) \subseteq data.fields

\* The top-level members a document of a type may have: those either validator
\* requires, and one more for a resume.
DocumentMembers(schema_type) ==
    CASE schema_type = "resume" -> {"name", "contact", "technical_skills", "education"}
      [] schema_type = "job_description" ->
            {"title", "requirements", "required_skills", "company"}

\* The documents given to the validators, with their schema type.
ValidatorInputs ==
    UNION {{[schema_type |-> schema_type, data |-> [fields |-> fields]] :
               fields \in SUBSET DocumentMembers(schema_type)} :
           schema_type \in {"resume", "job_description"}}

InitValidators ==
    /\ pc = "ready"
    /\ cli_input \in ValidatorInputs
    /\ calls = <<>>
    /\ cli_result = <<>>
    /\ store = EmptyDict
    /\ persistence_result = NoCall
    /\ EvaluatorIdle
    /\ AssessmentIdle
    /\ GeneratorIdle
    /\ InstantiatorIdle
    /\ AnalyzerIdle
    /\ SynthesizerIdle
    /\ LlmIdle
    /\ StageIdle

\* validate_data(data, schema_type) on the document.
ValidateDataCall ==
    /\ "validate_data" \notin Range(calls)
    /\ calls' = Append(calls, "validate_data")
    /\ cli_result' = Append(cli_result, ValidateData(cli_input.data, cli_input.schema_type))
    /\ pc' = IF Len(calls) = 1 THEN "done" ELSE pc
    /\ UNCHANGED <<cli_input, store, otherThanCliVars>>

\* validate_json(data, schema_type) on the document.
ValidateJsonCall ==
    /\ "validate_json" \notin Range(calls)
    /\ calls' = Append(calls, "validate_json")
    /\ cli_result' = Append(cli_result, ValidateJson(cli_input.data, cli_input.schema_type))
    /\ pc' = IF Len(calls) = 1 THEN "done" ELSE pc
    /\ UNCHANGED <<cli_input, store, otherThanCliVars>>

NextValidators == ValidateDataCall \/ ValidateJsonCall

SpecValidators == InitValidators /\ [][NextValidators]_vars

(***************************************************************************)
(* Claims about the two validators (checked under SpecValidators)          *)
(***************************************************************************)
\* What the validator named returned for the document.
C30_Returned(validator) ==
    cli_result[CHOOSE i \in DOMAIN calls : calls[i] = validator]

\* C30: for every resume and every job description, validate_data accepts the
\* document exactly when validate_json does not reject it for a missing required
\* field.
C30_ValidatorsAgree ==
    pc = "done" => (C30_Returned("validate_data") <=> C30_Returned("validate_json"))

\* The validators do agree on every resume.
C30_AgreeOnResumes ==
    (pc = "done" /\ cli_input.schema_type = "resume")
        => (C30_Returned("validate_data") <=> C30_Returned("validate_json"))


====
